---- MODULE Spec2Model ----
(***************************************************************************)
(* GoGLutils: the 4x4 matrix algebra (Mat4, Vec4) and the MatrixStack      *)
(* built on it.                                                            *)
(*                                                                         *)
(* gl.Float values are modelled by integers in exact arithmetic; every     *)
(* input below is chosen so that the divisions the code performs are       *)
(* exact.  A *Mat4 is an address into heap, so that sharing between the    *)
(* current matrix, the saved snapshots and a pointer handed out by Top is  *)
(* something the model can express.                                        *)
(***************************************************************************)
EXTENDS Integers, Sequences, FiniteSets, TLC

\* ------------------------------------------------------------------ bounds
\* Largest number of snapshots the model lets Push save.
MaxDepth == 2
\* Largest absolute value of a matrix entry the model follows.
MaxAbs == 3
\* Largest N of the N-Push / N-Pop sequences of SpecBalance.
MaxN == 3
\* Largest number of calls Spec follows on one stack.
MaxCalls == 5
\* Largest absolute value of a matrix entry SpecScenario follows.
MaxCoord == 5

\* The gl.Float quotient a / b where it is exact (the model's inputs keep
\* every division of the code exact).
Quot(a, b) == IF b < 0 THEN (-a) \div (-b) ELSE a \div b
\* b divides a.
Divides(b, a) == IF b < 0 THEN a % (-b) = 0 ELSE a % b = 0

\* ------------------------------------------------------------ Vec4 / Mat4
\* type Vec4 struct { X, Y, Z, W gl.Float }
NewVec4(x, y, z, w) == [X |-> x, Y |-> y, Z |-> z, W |-> w]

\* type Vec3 struct { X, Y, Z gl.Float }
NewVec3(x, y, z) == [X |-> x, Y |-> y, Z |-> z]

\* The cross product with the operands exchanged: the left-handed one.
Cross_LeftHanded(u, v) ==
  NewVec3(v.Y*u.Z - v.Z*u.Y, v.Z*u.X - v.X*u.Z, v.X*u.Y - v.Y*u.X)

\* func (u *Vec3) Cross(v *Vec3) *Vec3
Cross(u, v) ==
  NewVec3(u.Y*v.Z - u.Z*v.Y, u.Z*v.X - u.X*v.Z, u.X*v.Y - u.Y*v.X)

\* func (u *Vec3) Add(v *Vec3) *Vec3
Add(u, v) == NewVec3(u.X + v.X, u.Y + v.Y, u.Z + v.Z)

\* func (u *Vec3) Sub(v *Vec3) *Vec3
Sub(u, v) == NewVec3(u.X - v.X, u.Y - v.Y, u.Z - v.Z)

\* func (u *Vec3) MulS(f gl.Float) *Vec3
Vec3MulS(u, f) == NewVec3(u.X * f, u.Y * f, u.Z * f)

\* func (v3 *Vec3) To4W(f gl.Float) *Vec4
To4W(v3, f) == [X |-> v3.X, Y |-> v3.Y, Z |-> v3.Z, W |-> f]

\* func (v3 *Vec3) To4() *Vec4
To4(v3) == To4W(v3, 1)

\* A gl.Float that need not be an integer: the fraction n / d.  FloatOf(x) is
\* the integer x; FloatDiv(x, y) is x / y for an integer y (y = 0 gives d = 0:
\* the Inf or NaN of the division by zero).
FloatOf(x) == [n |-> x, d |-> 1]
FloatDiv(x, y) == [n |-> x.n, d |-> x.d * y]

\* math.Sqrt, exact on the perfect squares the model's vectors have as squared
\* norms (rounded down elsewhere).
Sqrt(n) == CHOOSE r \in 0..n : r * r <= n /\ (r + 1) * (r + 1) > n

\* lenv := sqrt(v.X*v.X + v.Y*v.Y + v.Z*v.Z), for integer components
Norm(v) == Sqrt(v.X.n * v.X.n + v.Y.n * v.Y.n + v.Z.n * v.Z.n)

\* A norm that takes W in as well.
Norm_WithW(v) == Sqrt(v.X.n * v.X.n + v.Y.n * v.Y.n + v.Z.n * v.Z.n + v.W.n * v.W.n)

\* The norm Vec4.Normalize computes: W is not part of it.
Norm4(v) == Sqrt(v.X.n * v.X.n + v.Y.n * v.Y.n + v.Z.n * v.Z.n)

\* func (v *Vec3) Normalize() : the value of *v after the call
Vec3Normalize(v) ==
  LET lenv == Norm(v)
  IN  [X |-> FloatDiv(v.X, lenv), Y |-> FloatDiv(v.Y, lenv), Z |-> FloatDiv(v.Z, lenv)]

\* func (v *Vec4) Normalize() : the value of *v after the call
Vec4Normalize(v) ==
  LET lenv == Norm4(v)
  IN  [X |-> FloatDiv(v.X, lenv), Y |-> FloatDiv(v.Y, lenv), Z |-> FloatDiv(v.Z, lenv),
       W |-> v.W]

\* type Mat4 [4]Vec4 : columns m[0] .. m[3]
Mat4Of(c0, c1, c2, c3) ==
  [i \in 0..3 |-> CASE i = 0 -> c0 [] i = 1 -> c1 [] i = 2 -> c2 [] i = 3 -> c3]

\* The nil *Mat4.
Nil == 0

IdentMat4 ==
  Mat4Of(NewVec4(1, 0, 0, 0), NewVec4(0, 1, 0, 0),
         NewVec4(0, 0, 1, 0), NewVec4(0, 0, 0, 1))

\* One column of the literal MulM builds: the four blocks of the source are
\* this expression for j = 0, 1, 2, 3.
MulMColumn(m1, m2, j) ==
  NewVec4(
    m1[0].X*m2[j].X + m1[1].X*m2[j].Y + m1[2].X*m2[j].Z + m1[3].X*m2[j].W,
    m1[0].Y*m2[j].X + m1[1].Y*m2[j].Y + m1[2].Y*m2[j].Z + m1[3].Y*m2[j].W,
    m1[0].Z*m2[j].X + m1[1].Z*m2[j].Y + m1[2].Z*m2[j].Z + m1[3].Z*m2[j].W,
    m1[0].W*m2[j].X + m1[1].W*m2[j].Y + m1[2].W*m2[j].Z + m1[3].W*m2[j].W)

\* The component-wise product instead of the matrix product.
MulM_Componentwise(m1, m2) ==
  [j \in 0..3 |-> NewVec4(m1[j].X * m2[j].X, m1[j].Y * m2[j].Y,
                          m1[j].Z * m2[j].Z, m1[j].W * m2[j].W)]

\* m1.MulM(m2) with the operands exchanged: the composition order reversed.
MulM_Swapped(m1, m2) ==
  Mat4Of(MulMColumn(m2, m1, 0), MulMColumn(m2, m1, 1),
         MulMColumn(m2, m1, 2), MulMColumn(m2, m1, 3))

\* MulV that reads m[i] as row i: the product with the transpose.
MulV_Rows(m, v) ==
  NewVec4(m[0].X*v.X + m[0].Y*v.Y + m[0].Z*v.Z + m[0].W*v.W,
          m[1].X*v.X + m[1].Y*v.Y + m[1].Z*v.Z + m[1].W*v.W,
          m[2].X*v.X + m[2].Y*v.Y + m[2].Z*v.Z + m[2].W*v.W,
          m[3].X*v.X + m[3].Y*v.Y + m[3].Z*v.Z + m[3].W*v.W)

\* func (m *Mat4) MulV(v *Vec4) *Vec4
MulV(m, v) ==
  NewVec4(m[0].X*v.X + m[1].X*v.Y + m[2].X*v.Z + m[3].X*v.W,
          m[0].Y*v.X + m[1].Y*v.Y + m[2].Y*v.Z + m[3].Y*v.W,
          m[0].Z*v.X + m[1].Z*v.Y + m[2].Z*v.Z + m[3].Z*v.W,
          m[0].W*v.X + m[1].W*v.Y + m[2].W*v.Z + m[3].W*v.W)

\* func (m1 *Mat4) MulM(m2 *Mat4) *Mat4
MulM(m1, m2) ==
  Mat4Of(MulMColumn(m1, m2, 0), MulMColumn(m1, m2, 1),
         MulMColumn(m1, m2, 2), MulMColumn(m1, m2, 3))

\* Transpose that returns a copy of the matrix.
Transpose_Copy(m) ==
  Mat4Of(NewVec4(m[0].X, m[0].Y, m[0].Z, m[0].W),
         NewVec4(m[1].X, m[1].Y, m[1].Z, m[1].W),
         NewVec4(m[2].X, m[2].Y, m[2].Z, m[2].W),
         NewVec4(m[3].X, m[3].Y, m[3].Z, m[3].W))

\* func (m *Mat4) Transpose() *Mat4
Transpose(m) ==
  Mat4Of(NewVec4(m[0].X, m[1].X, m[2].X, m[3].X),
         NewVec4(m[0].Y, m[1].Y, m[2].Y, m[3].Y),
         NewVec4(m[0].Z, m[1].Z, m[2].Z, m[3].Z),
         NewVec4(m[0].W, m[1].W, m[2].W, m[3].W))

\* func (m *Mat4) MulS(s gl.Float) *Mat4
MulS(m, s) ==
  Mat4Of(NewVec4(m[0].X * s, m[0].Y * s, m[0].Z * s, m[0].W * s),
         NewVec4(m[1].X * s, m[1].Y * s, m[1].Z * s, m[1].W * s),
         NewVec4(m[2].X * s, m[2].Y * s, m[2].Z * s, m[2].W * s),
         NewVec4(m[3].X * s, m[3].Y * s, m[3].Z * s, m[3].W * s))

\* The matrix Mat4.Scale builds from s before multiplying.
ScaleMat(s) ==
  [IdentMat4 EXCEPT ![0].X = s.X, ![1].Y = s.Y, ![2].Z = s.Z]

\* func (m *Mat4) Scale(s *Vec4) *Mat4
Scale(m, s) == MulM(m, ScaleMat(s))

\* A translation matrix with the offset stored in row 3 instead of column 3.
TranslateMat_Row(offset) ==
  [IdentMat4 EXCEPT ![0].W = offset.X, ![1].W = offset.Y, ![2].W = offset.Z]

\* The matrix Mat4.Translate builds from offset before multiplying.
TranslateMat(offset) ==
  [IdentMat4 EXCEPT ![3].X = offset.X, ![3].Y = offset.Y, ![3].Z = offset.Z]

\* func (m *Mat4) Translate(offset *Vec4) *Mat4
Translate(m, offset) == MulM(m, TranslateMat(offset))

\* ToArray in row-major order: arr[i*4 .. i*4+3] = row i.
ToArray_RowMajor(m) ==
  [k \in 0..15 |->
     LET vec == m[k % 4]
     IN  CASE k \div 4 = 0 -> vec.X
           [] k \div 4 = 1 -> vec.Y
           [] k \div 4 = 2 -> vec.Z
           [] k \div 4 = 3 -> vec.W]

\* func (m *Mat4) ToArray() []gl.Float : arr[i*4 .. i*4+3] = column i
ToArray(m) ==
  [k \in 0..15 |->
     LET vec == m[k \div 4]
     IN  CASE k % 4 = 0 -> vec.X
           [] k % 4 = 1 -> vec.Y
           [] k % 4 = 2 -> vec.Z
           [] k % 4 = 3 -> vec.W]

\* FromArray reading arr in row-major order.
FromArray_RowMajor(arr) ==
  [i \in 0..3 |-> NewVec4(arr[i], arr[4+i], arr[8+i], arr[12+i])]

\* func FromArray(arr []gl.Float) (*Mat4, error), for a 16-element arr
FromArray(arr) ==
  [i \in 0..3 |-> NewVec4(arr[i*4], arr[i*4+1], arr[i*4+2], arr[i*4+3])]

\* The nil error.
NoError == ""

\* len(arr) of a []gl.Float, a function over 0 .. len(arr)-1
LenOf(arr) == Cardinality(DOMAIN arr)

\* FromArray that accepts 16 elements and nothing else.
FromArrayCall_Exact(arr) ==
  IF LenOf(arr) # 16 THEN [mat |-> Nil, err |-> "Need 16-element float array"]
  ELSE [mat |-> FromArray(arr), err |-> ""]

\* func FromArray(arr []gl.Float) (*Mat4, error) with both returns
\* (err = NoError is Go's nil error)
FromArrayCall(arr) ==
  IF LenOf(arr) < 16 THEN [mat |-> Nil, err |-> "Need 16-element float array"]
  ELSE [mat |-> FromArray(arr), err |-> NoError]

\* A copy that shares nothing is the same value at another address; as a
\* value, Copy rebuilds the matrix component by component.
Copy(m) ==
  [i \in 0..3 |-> NewVec4(m[i].X, m[i].Y, m[i].Z, m[i].W)]

\* The sixteen cofactor expressions of Invert, inv[0] .. inv[15].
Cofactors(m) ==
  [k \in 0..15 |->
    CASE k = 0 -> m[5]*m[10]*m[15] - m[5]*m[11]*m[14] - m[9]*m[6]*m[15] + m[9]*m[7]*m[14] + m[13]*m[6]*m[11] - m[13]*m[7]*m[10]
      [] k = 4 -> -m[4]*m[10]*m[15] + m[4]*m[11]*m[14] + m[8]*m[6]*m[15] - m[8]*m[7]*m[14] - m[12]*m[6]*m[11] + m[12]*m[7]*m[10]
      [] k = 8 -> m[4]*m[9]*m[15] - m[4]*m[11]*m[13] - m[8]*m[5]*m[15] + m[8]*m[7]*m[13] + m[12]*m[5]*m[11] - m[12]*m[7]*m[9]
      [] k = 12 -> -m[4]*m[9]*m[14] + m[4]*m[10]*m[13] + m[8]*m[5]*m[14] - m[8]*m[6]*m[13] - m[12]*m[5]*m[10] + m[12]*m[6]*m[9]
      [] k = 1 -> -m[1]*m[10]*m[15] + m[1]*m[11]*m[14] + m[9]*m[2]*m[15] - m[9]*m[3]*m[14] - m[13]*m[2]*m[11] + m[13]*m[3]*m[10]
      [] k = 5 -> m[0]*m[10]*m[15] - m[0]*m[11]*m[14] - m[8]*m[2]*m[15] + m[8]*m[3]*m[14] + m[12]*m[2]*m[11] - m[12]*m[3]*m[10]
      [] k = 9 -> -m[0]*m[9]*m[15] + m[0]*m[11]*m[13] + m[8]*m[1]*m[15] - m[8]*m[3]*m[13] - m[12]*m[1]*m[11] + m[12]*m[3]*m[9]
      [] k = 13 -> m[0]*m[9]*m[14] - m[0]*m[10]*m[13] - m[8]*m[1]*m[14] + m[8]*m[2]*m[13] + m[12]*m[1]*m[10] - m[12]*m[2]*m[9]
      [] k = 2 -> m[1]*m[6]*m[15] - m[1]*m[7]*m[14] - m[5]*m[2]*m[15] + m[5]*m[3]*m[14] + m[13]*m[2]*m[7] - m[13]*m[3]*m[6]
      [] k = 6 -> -m[0]*m[6]*m[15] + m[0]*m[7]*m[14] + m[4]*m[2]*m[15] - m[4]*m[3]*m[14] - m[12]*m[2]*m[7] + m[12]*m[3]*m[6]
      [] k = 10 -> m[0]*m[5]*m[15] - m[0]*m[7]*m[13] - m[4]*m[1]*m[15] + m[4]*m[3]*m[13] + m[12]*m[1]*m[7] - m[12]*m[3]*m[5]
      [] k = 14 -> -m[0]*m[5]*m[14] + m[0]*m[6]*m[13] + m[4]*m[1]*m[14] - m[4]*m[2]*m[13] - m[12]*m[1]*m[6] + m[12]*m[2]*m[5]
      [] k = 3 -> -m[1]*m[6]*m[11] + m[1]*m[7]*m[10] + m[5]*m[2]*m[11] - m[5]*m[3]*m[10] - m[9]*m[2]*m[7] + m[9]*m[3]*m[6]
      [] k = 7 -> m[0]*m[6]*m[11] - m[0]*m[7]*m[10] - m[4]*m[2]*m[11] + m[4]*m[3]*m[10] + m[8]*m[2]*m[7] - m[8]*m[3]*m[6]
      [] k = 11 -> -m[0]*m[5]*m[11] + m[0]*m[7]*m[9] + m[4]*m[1]*m[11] - m[4]*m[3]*m[9] - m[8]*m[1]*m[7] + m[8]*m[3]*m[5]
      [] k = 15 -> m[0]*m[5]*m[10] - m[0]*m[6]*m[9] - m[4]*m[1]*m[10] + m[4]*m[2]*m[9] + m[8]*m[1]*m[6] - m[8]*m[2]*m[5] ]

\* det := m[0]*inv[0] + m[1]*inv[4] + m[2]*inv[8] + m[3]*inv[12]
DetOf(m, inv) == m[0]*inv[0] + m[1]*inv[4] + m[2]*inv[8] + m[3]*inv[12]
Determinant(m) == DetOf(m, Cofactors(m))

\* Invert with a tolerance: a determinant within 1 of zero counts as zero.
InvertFails_Tolerance(m) == Determinant(m) \in (-1)..1

\* Invert's error return: "No inverse for this matrix!"
InvertFails(m) == Determinant(m) = 0

\* Exact arithmetic: inv[i] * (1.0 / det) is the quotient inv[i] / det.  The
\* model follows Invert only where every quotient is an integer.
InvertExact(m) ==
  LET inv == Cofactors(m)
      det == DetOf(m, inv)
  IN  IF det = 0 THEN TRUE ELSE \A k \in 0..15 : Divides(det, inv[k])

\* Invert without the scaling by 1/det: the cofactor array itself.
Invert_Unscaled(m) == Cofactors(m)

\* func Invert(m []gl.Float) ([]gl.Float, error), the success return
Invert(m) ==
  LET inv == Cofactors(m)
      det == DetOf(m, inv)
  IN  [i \in 0..15 |-> Quot(inv[i], det)]

\* func Invert(m []gl.Float) ([]gl.Float, error) with both returns
InvertCall(m) ==
  IF LenOf(m) # 16 THEN [out |-> Nil, err |-> "Not a 4x4 matrix, needs 16 elements"]
  ELSE IF InvertFails(m) THEN [out |-> Nil, err |-> "No inverse for this matrix!"]
  ELSE [out |-> Invert(m), err |-> NoError]

\* func (m *Mat4) Inverse() *Mat4 : nil when Invert returns an error
Inverse(m) ==
  LET inArray == ToArray(m)
  IN  IF ~InvertFails(inArray) THEN FromArray(Invert(inArray)) ELSE Nil

\* Inverse with both outcomes told apart: nil, or the matrix it points to.
InverseCall(m) ==
  LET inArray == ToArray(m)
      r == InvertCall(inArray)
  IN  IF r.err = NoError THEN [nil |-> FALSE, mat |-> FromArrayCall(r.out).mat]
      ELSE [nil |-> TRUE, mat |-> Nil]

\* Cosine and sine of an angle in degrees, at the quarter turns, taken as the
\* exact values CosGL(DegToRad(d)) and SinGL(DegToRad(d)) approximate.
CosDeg(d) == CASE d % 360 = 0 -> 1 [] d % 360 = 90 -> 0
               [] d % 360 = 180 -> -1 [] d % 360 = 270 -> 0
SinDeg(d) == CASE d % 360 = 0 -> 0 [] d % 360 = 90 -> 1
               [] d % 360 = 180 -> 0 [] d % 360 = 270 -> -1

\* func RotateX(fAngDeg gl.Float) *Mat4
RotateX(fAngDeg) ==
  LET fCos == CosDeg(fAngDeg)
      fSin == SinDeg(fAngDeg)
  IN  [IdentMat4 EXCEPT ![1].Y = fCos, ![2].Y = -fSin, ![1].Z = fSin, ![2].Z = fCos]

\* func RotateY(fAngDeg gl.Float) *Mat4
RotateY(fAngDeg) ==
  LET fCos == CosDeg(fAngDeg)
      fSin == SinDeg(fAngDeg)
  IN  [IdentMat4 EXCEPT ![0].X = fCos, ![2].X = fSin, ![0].Z = -fSin, ![2].Z = fCos]

\* func RotateZ(fAngDeg gl.Float) *Mat4
RotateZ(fAngDeg) ==
  LET fCos == CosDeg(fAngDeg)
      fSin == SinDeg(fAngDeg)
  IN  [IdentMat4 EXCEPT ![0].X = fCos, ![1].X = -fSin, ![0].Y = fSin, ![1].Y = fCos]

\* func Ortho(left, right, bottom, top, nearVal, farVal gl.Float) *Mat4
Ortho(left, right, bottom, top, nearVal, farVal) ==
  [IdentMat4 EXCEPT
     ![0].X = Quot(2, right - left),
     ![1].Y = Quot(2, top - bottom),
     ![2].Z = Quot(-2, farVal - nearVal),
     ![3].X = Quot(-(right + left), right - left),
     ![3].Y = Quot(-(top + bottom), top - bottom),
     ![3].Z = Quot(-(farVal + nearVal), farVal - nearVal)]

\* 1 / TanGL(fovy / 2.0) for the field-of-view angles the model uses: a right
\* angle, whose half has tangent 1.
CotHalf(fovy) == CASE fovy = "pi/2" -> 1

\* func Perspective(fovy, aspect, zNear, zFar gl.Float) *Mat4
Perspective(fovy, aspect, zNear, zFar) ==
  LET f == CotHalf(fovy)
  IN  [IdentMat4 EXCEPT
         ![0].X = Quot(f, aspect),
         ![1].Y = f,
         ![2].Z = Quot(zFar + zNear, zNear - zFar),
         ![3].W = 0,
         ![2].W = -1,
         ![3].Z = Quot(2 * zFar * zNear, zNear - zFar)]

\* func Frustum(left, right, bottom, top, near, far gl.Float) *Mat4
\* m[2].W is assigned -1.0 and, two statements later, 0.0: it ends as 0.
Frustum(left, right, bottom, top, near, far) ==
  IF (right = left) \/ (top = bottom) \/ (near = far) \/ (near < 0) \/ (far < 0)
  THEN IdentMat4
  ELSE [IdentMat4 EXCEPT
          ![0].X = Quot(2 * near, right - left),
          ![1].Y = Quot(2 * near, top - bottom),
          ![2].X = Quot(right + left, right - left),
          ![2].Y = Quot(top + bottom, top - bottom),
          ![2].Z = Quot(-(far + near), far - near),
          ![3].Z = Quot(-(2 * far * near), far - near),
          ![2].W = 0]

\* Clamp without the test against fMaxValue.
Clamp_MinOnly(fValue, fMinValue, fMaxValue) ==
  IF fValue < fMinValue THEN fMinValue ELSE fValue

\* func Clamp(fValue, fMinValue, fMaxValue gl.Float) gl.Float
Clamp(fValue, fMinValue, fMaxValue) ==
  IF fValue < fMinValue THEN fMinValue
  ELSE IF fValue > fMaxValue THEN fMaxValue
  ELSE fValue

\* Entry (row r, column c) of a column-major matrix: component r of column c.
Entry(m, r, c) ==
  CASE r = 0 -> m[c].X [] r = 1 -> m[c].Y [] r = 2 -> m[c].Z [] r = 3 -> m[c].W

\* The matrix product a x b as linear algebra defines it:
\* (a x b)(r, c) = sum over k of a(r, k) * b(k, c).
MatProduct(a, b) ==
  LET e(r, c) == Entry(a, r, 0) * Entry(b, 0, c) + Entry(a, r, 1) * Entry(b, 1, c)
               + Entry(a, r, 2) * Entry(b, 2, c) + Entry(a, r, 3) * Entry(b, 3, c)
  IN  [c \in 0..3 |-> NewVec4(e(0, c), e(1, c), e(2, c), e(3, c))]

\* Every entry of m lies within the bound the model follows.
InBounds(m) ==
  \A i \in 0..3 : \A x \in {m[i].X, m[i].Y, m[i].Z, m[i].W} : x >= -MaxAbs /\ x <= MaxAbs

\* ------------------------------------------------------------ the inputs
RotDegs == {90}
ScaleVecs == {NewVec4(0, 1, 1, 1), NewVec4(2, 1, 1, 1)}
Offsets == {NewVec4(1, 0, 0, 1)}
\* Arguments of MatrixStack.MulM: a shear (determinant 1) and a matrix with
\* two identical columns (determinant 0).
MulMats ==
  { Mat4Of(NewVec4(1, 0, 0, 0), NewVec4(1, 1, 0, 0), NewVec4(0, 0, 1, 0), NewVec4(0, 0, 0, 1)),
    Mat4Of(NewVec4(1, 0, 0, 0), NewVec4(1, 0, 0, 0), NewVec4(0, 0, 1, 0), NewVec4(0, 0, 0, 1)) }
\* <<left, right, bottom, top, nearVal, farVal>>
OrthoArgs == { <<0, 2, 0, 2, -1, 1>> }
\* <<fovy, aspect, zNear, zFar>>
PerspArgs == { <<"pi/2", 1, 1, 3>> }
\* <<column, value>>: the caller stores value into column's X through Top().
WriteCells == { <<3, 2>> }

\* ------------------------------------------------------------- the state
VARIABLES
  heap,      \* the Mat4 objects that are reachable: address -> value
  currMat,   \* ms.currMat : an address, or Nil
  matrices,  \* ms.matrices : the saved snapshots, a sequence of addresses
  topRef,    \* the pointer the caller holds from its last call of Top, or Nil
  crashed,   \* a nil *Mat4 was dereferenced: the program has panicked
  last,      \* history: the last call, and len(ms.matrices) before it
  hist,      \* history: the values Push was called on and Pop has not yet taken
  comp,      \* history: the product of the operation matrices since Init
  fuel,      \* the calls the model still follows (-1: no bound on their number)
  bal,       \* the driver's record in SpecBalance and SpecScenario
  call       \* outside the stack: one call of a function, with the state it works on

vars == <<heap, currMat, matrices, topRef, crashed, last, hist, comp, fuel, bal, call>>
prog == <<heap, currMat, matrices, topRef, crashed>>

\* The value of the current matrix (currMat # Nil).
Cur == heap[currMat]
\* The values of the saved snapshots, oldest first.
Saved == [i \in 1..Len(matrices) |-> heap[matrices[i]]]

\* The program state with current cur, snapshots ms and caller's pointer tr
\* over the objects h.  Objects nothing refers to are dropped (the garbage
\* collector), and addresses are renamed in order of first use, which no Go
\* program can observe: pointer equality is kept.
Commit(cur, ms, tr, h) ==
  LET refs == <<cur>> \o ms \o <<tr>>
      live == {refs[i] : i \in 1..Len(refs)} \ {Nil}
      First(a) == CHOOSE i \in 1..Len(refs) :
                    refs[i] = a /\ \A j \in 1..(i-1) : refs[j] # a
      Ren(a) == IF a = Nil THEN Nil
                ELSE Cardinality({b \in live : First(b) <= First(a)})
  IN  /\ currMat' = Ren(cur)
      /\ matrices' = [i \in 1..Len(ms) |-> Ren(ms[i])]
      /\ topRef' = Ren(tr)
      /\ heap' = [n \in 1..Cardinality(live) |-> h[CHOOSE b \in live : Ren(b) = n]]

\* An address no object of heap has, and heap with a new object m there.
Fresh == Len(heap) + 1
WithNew(m) == Append(heap, m)

\* A method dereferences the nil currMat: runtime panic.
Panic == crashed' = TRUE /\ UNCHANGED <<heap, currMat, matrices, topRef>>

\* ms.currMat = <a newly built *Mat4 of value m>
SetCurrent(m) == Commit(Fresh, matrices, topRef, WithNew(m)) /\ crashed' = crashed

\* ms.currMat = nil
SetCurrentNil == Commit(Nil, matrices, topRef, heap) /\ crashed' = crashed

\* A composing call that also saves the matrix it replaces.
Compose_Saving(t) ==
  IF currMat = Nil THEN Panic
  ELSE Commit(Fresh, Append(matrices, currMat), topRef, WithNew(MulM(Cur, t)))
       /\ crashed' = crashed

\* ms.currMat = ms.currMat.MulM(t)
Compose(t) ==
  IF currMat = Nil THEN Panic ELSE SetCurrent(MulM(Cur, t))

\* The history of a call: its name and the stack length before it.
Called(op) ==
  /\ fuel' = IF fuel > 0 THEN fuel - 1 ELSE fuel
  /\ last' = [op |-> op, preLen |-> Len(matrices)]
  /\ call' = call

\* comp after an operation that multiplies by the matrix t.
CompTimes(t) ==
  IF comp.valid /\ InBounds(MatProduct(comp.prod, t))
  THEN [comp EXCEPT !.prod = MatProduct(comp.prod, t)]
  ELSE [valid |-> FALSE, inv |-> FALSE, prod |-> IdentMat4]
\* comp once current is no longer Init followed by composing operations.
CompVoid == [valid |-> FALSE, inv |-> FALSE, prod |-> IdentMat4]

\* The result of a composing call stays within the model's bound.
Follows(t) == IF currMat = Nil THEN TRUE ELSE InBounds(MulM(Cur, t))

\* call in the specifications of the stack.
NoCall == [fn |-> "none", done |-> FALSE]

\* bal outside SpecBalance.
NoBal == [N |-> 0, pushes |-> 0, pops |-> 0, cur0 |-> IdentMat4, saved0 |-> <<>>]

\* The zero value of MatrixStack: no call has been made yet.
Init ==
  /\ heap = <<>>
  /\ currMat = Nil
  /\ matrices = <<>>
  /\ topRef = Nil
  /\ crashed = FALSE
  /\ last = [op |-> "new", preLen |-> 0]
  /\ hist = <<>>
  /\ comp = CompVoid
  /\ fuel = MaxCalls
  /\ bal = NoBal
  /\ call = NoCall

\* The program is running, and the model follows one more call.
Running == ~crashed /\ fuel # 0

\* The caller initializes the stack before any other use.
Ready == Running /\ last.op # "new"

\* func (ms *MatrixStack) Init()
MS_Init ==
  /\ Running
  /\ SetCurrent(IdentMat4)
  /\ Called("Init")
  /\ comp' = [valid |-> TRUE, inv |-> FALSE, prod |-> IdentMat4]
  /\ UNCHANGED <<hist, bal>>

\* func (ms *MatrixStack) Top() *Mat4 ; the caller keeps the pointer
MS_Top ==
  /\ Ready
  /\ Commit(currMat, matrices, currMat, heap)
  /\ Called("Top")
  /\ UNCHANGED <<crashed, hist, comp, bal>>

\* The caller stores into the matrix it got from Top: p[col].X = v
WriteThroughTop ==
  /\ Ready
  /\ topRef # Nil
  /\ \E w \in WriteCells :
       Commit(currMat, matrices, topRef, [heap EXCEPT ![topRef][w[1]].X = w[2]])
  /\ Called("Write")
  /\ comp' = IF topRef = currMat THEN CompVoid ELSE comp
  /\ UNCHANGED <<crashed, hist, bal>>

\* func (ms *MatrixStack) RotateX(deg gl.Float)
MS_RotateX ==
  /\ Ready
  /\ \E deg \in RotDegs :
       /\ Follows(RotateX(deg))
       /\ Compose(RotateX(deg))
       /\ comp' = CompTimes(RotateX(deg))
  /\ Called("RotateX")
  /\ UNCHANGED <<hist, bal>>

\* func (ms *MatrixStack) RotateY(deg gl.Float)
MS_RotateY ==
  /\ Ready
  /\ \E deg \in RotDegs :
       /\ Follows(RotateY(deg))
       /\ Compose(RotateY(deg))
       /\ comp' = CompTimes(RotateY(deg))
  /\ Called("RotateY")
  /\ UNCHANGED <<hist, bal>>

\* func (ms *MatrixStack) RotateZ(deg gl.Float)
MS_RotateZ ==
  /\ Ready
  /\ \E deg \in RotDegs :
       /\ Follows(RotateZ(deg))
       /\ Compose(RotateZ(deg))
       /\ comp' = CompTimes(RotateZ(deg))
  /\ Called("RotateZ")
  /\ UNCHANGED <<hist, bal>>

\* func (ms *MatrixStack) Scale(s *Vec4)
MS_Scale ==
  /\ Ready
  /\ \E s \in ScaleVecs :
       /\ Follows(ScaleMat(s))
       /\ IF currMat = Nil THEN Panic ELSE SetCurrent(Scale(Cur, s))
       /\ comp' = CompTimes(ScaleMat(s))
  /\ Called("Scale")
  /\ UNCHANGED <<hist, bal>>

\* func (ms *MatrixStack) Translate(offset *Vec4)
MS_Translate ==
  /\ Ready
  /\ \E offset \in Offsets :
       /\ Follows(TranslateMat(offset))
       /\ IF currMat = Nil THEN Panic ELSE SetCurrent(Translate(Cur, offset))
       /\ comp' = CompTimes(TranslateMat(offset))
  /\ Called("Translate")
  /\ UNCHANGED <<hist, bal>>

\* func (ms *MatrixStack) Invert()
MS_Invert ==
  /\ Ready
  /\ IF currMat = Nil THEN Panic
     ELSE LET inArray == ToArray(Cur)
          IN  /\ InvertExact(inArray)
              /\ IF InvertFails(inArray) THEN SetCurrentNil
                 ELSE LET inverse == Inverse(Cur)
                      IN  InBounds(inverse) /\ SetCurrent(inverse)
  /\ Called("Invert")
  /\ comp' = IF comp.valid THEN [comp EXCEPT !.inv = TRUE] ELSE comp
  /\ UNCHANGED <<hist, bal>>

\* func (ms *MatrixStack) MulM(m *Mat4)
MS_MulM ==
  /\ Ready
  /\ \E m \in MulMats :
       /\ Follows(m)
       /\ Compose(m)
       /\ comp' = CompTimes(m)
  /\ Called("MulM")
  /\ UNCHANGED <<hist, bal>>

\* func (ms *MatrixStack) Ortho(left, right, bottom, top, nearVal, farVal gl.Float)
MS_Ortho ==
  /\ Ready
  /\ \E a \in OrthoArgs :
       LET t == Ortho(a[1], a[2], a[3], a[4], a[5], a[6])
       IN  /\ Follows(t)
           /\ Compose(t)
           /\ comp' = CompTimes(t)
  /\ Called("Ortho")
  /\ UNCHANGED <<hist, bal>>

\* func (ms *MatrixStack) Perspective(fov, aspect, zNear, zFar gl.Float)
MS_Perspective ==
  /\ Ready
  /\ \E a \in PerspArgs :
       LET t == Perspective(a[1], a[2], a[3], a[4])
       IN  /\ Follows(t)
           /\ Compose(t)
           /\ comp' = CompTimes(t)
  /\ Called("Perspective")
  /\ UNCHANGED <<hist, bal>>

\* Push that saves the pointer itself instead of a copy.
DoPush_NoCopy ==
  IF currMat = Nil THEN Panic
  ELSE Commit(currMat, Append(matrices, currMat), topRef, heap) /\ crashed' = crashed

\* copied := ms.currMat.Copy(); ms.matrices = append(ms.matrices, copied)
DoPush ==
  IF currMat = Nil THEN Panic
  ELSE Commit(currMat, Append(matrices, Fresh), topRef, WithNew(Copy(Cur)))
       /\ crashed' = crashed

\* Pop without the length test: indexes ms.matrices[-1] on an empty stack.
DoPop_NoGuard ==
  IF Len(matrices) > 0
  THEN Commit(matrices[Len(matrices)], SubSeq(matrices, 1, Len(matrices) - 1), topRef, heap)
       /\ crashed' = crashed
  ELSE Panic

\* Pop that installs the newest snapshot and leaves it on the stack.
DoPop_KeepEntry ==
  IF Len(matrices) > 0
  THEN Commit(matrices[Len(matrices)], matrices, topRef, heap) /\ crashed' = crashed
  ELSE UNCHANGED prog

\* Pop that installs the oldest snapshot instead of the newest.
DoPop_Oldest ==
  IF Len(matrices) > 0
  THEN Commit(matrices[1], SubSeq(matrices, 2, Len(matrices)), topRef, heap)
       /\ crashed' = crashed
  ELSE UNCHANGED prog

\* if len(ms.matrices) > 0 { ms.currMat = last; ms.matrices = all but last }
DoPop ==
  IF Len(matrices) > 0
  THEN Commit(matrices[Len(matrices)], SubSeq(matrices, 1, Len(matrices) - 1), topRef, heap)
       /\ crashed' = crashed
  ELSE UNCHANGED prog

\* A call of Push, with its history.
PushCall ==
  /\ Ready
  /\ DoPush
  /\ Called("Push")
  /\ hist' = IF currMat = Nil THEN hist ELSE Append(hist, Cur)
  /\ UNCHANGED comp

\* A call of Pop, with its history.
PopCall ==
  /\ Ready
  /\ DoPop
  /\ Called("Pop")
  /\ hist' = IF hist = <<>> THEN hist ELSE SubSeq(hist, 1, Len(hist) - 1)
  /\ comp' = IF Len(matrices) > 0 THEN CompVoid ELSE comp

\* func (ms *MatrixStack) Push()
MS_Push ==
  /\ Len(matrices) < MaxDepth
  /\ PushCall
  /\ UNCHANGED bal

\* func (ms *MatrixStack) Pop()
MS_Pop ==
  /\ PopCall
  /\ UNCHANGED bal

Next ==
  \/ MS_Init
  \/ MS_Top
  \/ WriteThroughTop
  \/ MS_RotateX
  \/ MS_RotateY
  \/ MS_RotateZ
  \/ MS_Scale
  \/ MS_Translate
  \/ MS_Invert
  \/ MS_MulM
  \/ MS_Ortho
  \/ MS_Perspective
  \/ MS_Push
  \/ MS_Pop

Spec == Init /\ [][Next]_vars

\* ---------------------------------------------------------------------------
\* The stack discipline alone: Init, Translate, Push and Pop in any order and
\* number, bounded by MaxDepth and MaxAbs instead of by the number of calls.
InitStack ==
  /\ heap = <<>>
  /\ currMat = Nil
  /\ matrices = <<>>
  /\ topRef = Nil
  /\ crashed = FALSE
  /\ last = [op |-> "new", preLen |-> 0]
  /\ hist = <<>>
  /\ comp = CompVoid
  /\ fuel = -1
  /\ bal = NoBal
  /\ call = NoCall

NextStack ==
  \/ MS_Init
  \/ MS_Translate
  \/ MS_Push
  \/ MS_Pop

SpecStack == InitStack /\ [][NextStack]_vars

\* ---------------------------------------------------------------------------
\* N calls of Push followed by N calls of Pop, from any state of an initialized
\* stack: any current matrix and any saved snapshots among StartMats.
StartMats ==
  { IdentMat4, TranslateMat(NewVec4(1, 0, 0, 1)), RotateZ(90),
    ScaleMat(NewVec4(0, 1, 1, 1)) }
StartStacks ==
  {<<>>} \cup {<<a>> : a \in StartMats} \cup {<<a, b>> : a \in StartMats, b \in StartMats}

InitBalance ==
  \E c \in StartMats, sv \in StartStacks, n \in 0..MaxN :
    /\ heap = <<c>> \o sv
    /\ currMat = 1
    /\ matrices = [i \in 1..Len(sv) |-> i + 1]
    /\ topRef = Nil
    /\ crashed = FALSE
    /\ last = [op |-> "start", preLen |-> Len(sv)]
    /\ hist = sv
    /\ comp = CompVoid
    /\ fuel = -1
    /\ bal = [N |-> n, pushes |-> 0, pops |-> 0, cur0 |-> c, saved0 |-> sv]
    /\ call = NoCall

BalPush ==
  /\ bal.pushes < bal.N
  /\ PushCall
  /\ bal' = [bal EXCEPT !.pushes = @ + 1]

BalPop ==
  /\ bal.pushes = bal.N
  /\ bal.pops < bal.N
  /\ PopCall
  /\ bal' = [bal EXCEPT !.pops = @ + 1]

NextBalance ==
  \/ BalPush
  \/ BalPop

SpecBalance == InitBalance /\ [][NextBalance]_vars

\* ---------------------------------------------------------------------------
\* A marked Push, then successful composing operations and balanced Push/Pop
\* pairs, then the Pop that matches the marked Push.  bal records the mark
\* (marked, level = len(ms.matrices) before it, atPush = current at it), whether
\* the matching Pop has happened, and step: the calls made so far are exactly
\* the first step calls of Script (-1 once they are not).
NoArg == NewVec4(0, 0, 0, 0)
Script ==
  << [op |-> "Init", arg |-> NoArg],
     [op |-> "Translate", arg |-> NewVec4(5, 0, 0, 1)],
     [op |-> "Push", arg |-> NoArg],
     [op |-> "Translate", arg |-> NewVec4(0, 5, 0, 1)],
     [op |-> "Pop", arg |-> NoArg] >>
ScenOffsets == {NewVec4(5, 0, 0, 1), NewVec4(0, 5, 0, 1)}
\* The operation matrices of the other composing calls: RotateX/Y/Z(90),
\* Scale, MulM, Ortho and Perspective, with the arguments Spec uses.
ScenMats ==
  [ RotateX |-> RotateX(90), RotateY |-> RotateY(90), RotateZ |-> RotateZ(90),
    Scale |-> ScaleMat(NewVec4(2, 1, 1, 1)),
    MulM |-> Mat4Of(NewVec4(1, 0, 0, 0), NewVec4(1, 1, 0, 0),
                    NewVec4(0, 0, 1, 0), NewVec4(0, 0, 0, 1)),
    Ortho |-> Ortho(0, 2, 0, 2, -1, 1),
    Perspective |-> Perspective("pi/2", 1, 1, 3) ]

InScenario(m) ==
  \A i \in 0..3 : \A x \in {m[i].X, m[i].Y, m[i].Z, m[i].W} : x >= -MaxCoord /\ x <= MaxCoord

ScenCalled(op, arg) ==
  /\ fuel' = fuel - 1
  /\ last' = [op |-> op, preLen |-> Len(matrices)]
  /\ bal' = [bal EXCEPT !.step =
               IF bal.step >= 0 /\ bal.step < Len(Script)
                  /\ Script[bal.step + 1].op = op /\ Script[bal.step + 1].arg = arg
               THEN bal.step + 1 ELSE -1]
  /\ UNCHANGED <<hist, comp, call>>

ScenActive == ~crashed /\ fuel > 0 /\ last.op # "new" /\ ~bal.matched

InitScenario ==
  /\ heap = <<>>
  /\ currMat = Nil
  /\ matrices = <<>>
  /\ topRef = Nil
  /\ crashed = FALSE
  /\ last = [op |-> "new", preLen |-> 0]
  /\ hist = <<>>
  /\ comp = CompVoid
  /\ fuel = MaxCalls
  /\ bal = [marked |-> FALSE, matched |-> FALSE, level |-> 0,
            atPush |-> IdentMat4, step |-> 0]
  /\ call = NoCall

ScenInit ==
  /\ last.op = "new"
  /\ SetCurrent(IdentMat4)
  /\ ScenCalled("Init", NoArg)

ScenTranslate ==
  /\ ScenActive
  /\ \E offset \in ScenOffsets :
       /\ InScenario(Translate(Cur, offset))
       /\ SetCurrent(Translate(Cur, offset))
       /\ ScenCalled("Translate", offset)

ScenCompose ==
  /\ ScenActive
  /\ \E op \in DOMAIN ScenMats :
       /\ InScenario(MulM(Cur, ScenMats[op]))
       /\ Compose(ScenMats[op])
       /\ ScenCalled(op, NoArg)

\* Invert where it succeeds: the determinant of current is not zero.
ScenInvert ==
  /\ ScenActive
  /\ LET inArray == ToArray(Cur)
     IN  /\ InvertExact(inArray)
         /\ IF InvertFails(inArray) THEN FALSE
            ELSE LET inverse == Inverse(Cur)
                 IN  InScenario(inverse) /\ SetCurrent(inverse)
  /\ ScenCalled("Invert", NoArg)

\* The Push the claim is about.
ScenMark ==
  /\ ScenActive
  /\ ~bal.marked
  /\ Len(matrices) < MaxDepth
  /\ DoPush
  /\ fuel' = fuel - 1
  /\ last' = [op |-> "Push", preLen |-> Len(matrices)]
  /\ bal' = [bal EXCEPT !.marked = TRUE, !.level = Len(matrices), !.atPush = Cur,
                        !.step = IF bal.step = 2 THEN 3 ELSE -1]
  /\ UNCHANGED <<hist, comp, call>>

\* Any other Push.
ScenPush ==
  /\ ScenActive
  /\ Len(matrices) < MaxDepth
  /\ DoPush
  /\ ScenCalled("Push", NoArg)

\* A Pop that matches a Push made after the marked one (or, before the mark,
\* any Pop).
ScenPop ==
  /\ ScenActive
  /\ IF bal.marked THEN Len(matrices) > bal.level + 1 ELSE TRUE
  /\ DoPop
  /\ ScenCalled("Pop", NoArg)

\* The Pop that matches the marked Push.
ScenMatch ==
  /\ ScenActive
  /\ bal.marked
  /\ Len(matrices) = bal.level + 1
  /\ DoPop
  /\ fuel' = fuel - 1
  /\ last' = [op |-> "Pop", preLen |-> Len(matrices)]
  /\ bal' = [bal EXCEPT !.matched = TRUE,
                        !.step = IF bal.step = 4 THEN 5 ELSE -1]
  /\ UNCHANGED <<hist, comp, call>>

NextScenario ==
  \/ ScenInit
  \/ ScenTranslate
  \/ ScenCompose
  \/ ScenInvert
  \/ ScenMark
  \/ ScenPush
  \/ ScenPop
  \/ ScenMatch

SpecScenario == InitScenario /\ [][NextScenario]_vars

\* ---------------------------------------------------------------------------
\* The functions of the matrix library, one call each: Init draws the function
\* and its arguments, the actions below apply it and record what it returns.
MathMats ==
  { IdentMat4,
    TranslateMat(NewVec4(1, 2, 3, 1)),
    RotateZ(90),
    ScaleMat(NewVec4(2, 1, 1, 1)),
    Perspective("pi/2", 1, 1, 3),
    \* a shear
    Mat4Of(NewVec4(1, 0, 0, 0), NewVec4(1, 1, 0, 0), NewVec4(0, 0, 1, 0), NewVec4(0, 0, 0, 1)),
    \* rows 0 and 1 identical: determinant 0
    Mat4Of(NewVec4(1, 1, 0, 0), NewVec4(2, 2, 0, 0), NewVec4(0, 0, 1, 0), NewVec4(3, 3, 0, 1)),
    \* all sixteen entries different, determinant 0
    Mat4Of(NewVec4(1, 2, 3, 4), NewVec4(5, 6, 7, 8), NewVec4(9, 10, 11, 12), NewVec4(13, 14, 15, 16)),
    \* no zero entry, determinant 1
    Mat4Of(NewVec4(1, 1, 2, 1), NewVec4(2, 3, 5, 4), NewVec4(1, 2, 4, 4), NewVec4(3, 5, 9, 9)),
    \* no zero entry, determinant -1
    Mat4Of(NewVec4(2, 3, 5, 4), NewVec4(1, 1, 2, 1), NewVec4(1, 2, 4, 4), NewVec4(3, 5, 9, 9)) }
MathVecs == { NewVec4(1, 0, 0, 0), NewVec4(1, 2, 3, 1), NewVec4(-1, 2, 0, 1) }
\* A []gl.Float of length n with changing values.
Ramp(n) == [k \in 0..(n - 1) |-> ((k * 5) % 7) - 3]
ArrayLens == {0, 10, 15, 16, 17, 20}
MathArrays == {Ramp(n) : n \in ArrayLens} \cup {ToArray(m) : m \in MathMats}
\* <<left, right, bottom, top, near, far>>
FrustumArgs ==
  {-1, 1} \X {-1, 1} \X {-1, 1} \X {-1, 1} \X {-1, 0, 1, 2} \X {-1, 0, 1, 2}

\* <<fValue, fMinValue, fMaxValue>>
ClampArgs == ((-2)..2) \X ((-2)..2) \X ((-2)..2)

MathCalls ==
  {[fn |-> "MulM", a |-> a, b |-> b, done |-> FALSE, out |-> Nil] :
      a \in MathMats, b \in MathMats}
  \cup {[fn |-> "Invert", arr |-> ToArray(m), done |-> FALSE, out |-> Nil] :
      m \in {x \in MathMats : InvertExact(ToArray(x))}}
  \cup {[fn |-> "Invert", arr |-> Ramp(n), done |-> FALSE, out |-> Nil] :
      n \in ArrayLens \ {16}}
  \cup {[fn |-> "Inverse", m |-> m, done |-> FALSE, out |-> Nil] :
      m \in {x \in MathMats : InvertExact(ToArray(x))}}
  \cup {[fn |-> "Cofactors", m |-> m, done |-> FALSE, out |-> Nil] : m \in MathMats}
  \cup {[fn |-> "ToArray", m |-> m, done |-> FALSE, out |-> Nil] : m \in MathMats}
  \cup {[fn |-> "FromArray", arr |-> arr, done |-> FALSE, out |-> Nil] : arr \in MathArrays}
  \cup {[fn |-> "Transpose", m |-> m, done |-> FALSE, out |-> Nil] : m \in MathMats}
  \cup {[fn |-> "Frustum", args |-> a, done |-> FALSE, out |-> Nil] : a \in FrustumArgs}
  \cup {[fn |-> "Clamp", args |-> a, done |-> FALSE, out |-> Nil] : a \in ClampArgs}

InitMath ==
  /\ heap = <<>>
  /\ currMat = Nil
  /\ matrices = <<>>
  /\ topRef = Nil
  /\ crashed = FALSE
  /\ last = [op |-> "new", preLen |-> 0]
  /\ hist = <<>>
  /\ comp = CompVoid
  /\ fuel = -1
  /\ bal = NoBal
  /\ call \in MathCalls

Pending(fn) == call.fn = fn /\ ~call.done
Returned(fn) == call.fn = fn /\ call.done
Returns(out) ==
  /\ call' = [call EXCEPT !.done = TRUE, !.out = out]
  /\ UNCHANGED <<heap, currMat, matrices, topRef, crashed, last, hist, comp, fuel, bal>>

Math_MulM == Pending("MulM") /\ Returns(MulM(call.a, call.b))

Math_Invert == Pending("Invert") /\ Returns(InvertCall(call.arr))

Math_Inverse == Pending("Inverse") /\ Returns(InverseCall(call.m))

\* The array inv of Invert before the test det == 0 and the scaling by 1/det.
Math_Cofactors == Pending("Cofactors") /\ Returns(Cofactors(ToArray(call.m)))

Math_ToArray == Pending("ToArray") /\ Returns(ToArray(call.m))

Math_FromArray == Pending("FromArray") /\ Returns(FromArrayCall(call.arr))

Math_Transpose == Pending("Transpose") /\ Returns(Transpose(call.m))

Math_Frustum ==
  /\ Pending("Frustum")
  /\ LET a == call.args
     IN  Returns(Frustum(a[1], a[2], a[3], a[4], a[5], a[6]))

Math_Clamp ==
  /\ Pending("Clamp")
  /\ Returns(Clamp(call.args[1], call.args[2], call.args[3]))

NextMath ==
  \/ Math_MulM
  \/ Math_Invert
  \/ Math_Inverse
  \/ Math_Cofactors
  \/ Math_ToArray
  \/ Math_FromArray
  \/ Math_Transpose
  \/ Math_Frustum
  \/ Math_Clamp

SpecMath == InitMath /\ [][NextMath]_vars

\* ---------------------------------------------------------------------------
\* The methods of Vec3, Vec4 and Mat4 on objects: the receiver is the object at
\* heap[call.recv], a pointer argument the object at heap[call.arg] (which may
\* be the receiver itself), a scalar argument is call.f.  call.recv0 and
\* call.arg0 keep the values the two objects had before the call; call.out is
\* the address of the object the method returns, or Nil.
PureVecs3 ==
  { NewVec3(1, 0, 0), NewVec3(0, 1, 0), NewVec3(1, 2, 2), NewVec3(2, 3, 6),
    NewVec3(-3, 4, 0) }
PureMats ==
  { TranslateMat(NewVec4(1, 2, 3, 1)),
    Mat4Of(NewVec4(1, 0, 0, 0), NewVec4(1, 1, 0, 0), NewVec4(0, 0, 1, 0), NewVec4(0, 0, 0, 1)),
    Mat4Of(NewVec4(1, 1, 0, 0), NewVec4(2, 2, 0, 0), NewVec4(0, 0, 1, 0), NewVec4(3, 3, 0, 1)) }
PureScalars == {-1, 2}
\* Receivers of Normalize: integer components, written as gl.Float fractions.
NormVecs3 ==
  { [X |-> FloatOf(v.X), Y |-> FloatOf(v.Y), Z |-> FloatOf(v.Z)] : v \in PureVecs3 }
NormVecs4 ==
  { [X |-> FloatOf(v.X), Y |-> FloatOf(v.Y), Z |-> FloatOf(v.Z), W |-> FloatOf(w)] :
      v \in PureVecs3, w \in {1, 4} }

OnReceiver(fn, objs) ==
  { [heap |-> <<o>>,
     call |-> [fn |-> fn, recv |-> 1, arg |-> Nil, f |-> 0, recv0 |-> o, arg0 |-> Nil,
               done |-> FALSE, out |-> Nil]] : o \in objs }
WithScalar(fn, objs, fs) ==
  { [heap |-> <<o>>,
     call |-> [fn |-> fn, recv |-> 1, arg |-> Nil, f |-> f, recv0 |-> o, arg0 |-> Nil,
               done |-> FALSE, out |-> Nil]] : o \in objs, f \in fs }
WithPointer(fn, objs, args) ==
  { [heap |-> <<o, a>>,
     call |-> [fn |-> fn, recv |-> 1, arg |-> 2, f |-> 0, recv0 |-> o, arg0 |-> a,
               done |-> FALSE, out |-> Nil]] : o \in objs, a \in args }
\* u.Method(u): the argument is the receiver.
WithItself(fn, objs) ==
  { [heap |-> <<o>>,
     call |-> [fn |-> fn, recv |-> 1, arg |-> 1, f |-> 0, recv0 |-> o, arg0 |-> o,
               done |-> FALSE, out |-> Nil]] : o \in objs }

\* The calls, one set for each method and kind of argument.
PureCalls ==
  << WithPointer("Mat4.MulM", PureMats, PureMats), WithItself("Mat4.MulM", PureMats),
     WithPointer("Mat4.MulV", PureMats, MathVecs),
     WithScalar("Mat4.MulS", PureMats, PureScalars),
     OnReceiver("Mat4.Transpose", PureMats),
     WithPointer("Mat4.Scale", PureMats, MathVecs),
     WithPointer("Mat4.Translate", PureMats, MathVecs),
     OnReceiver("Mat4.Inverse", PureMats),
     OnReceiver("Mat4.ToArray", PureMats),
     OnReceiver("Mat4.Copy", PureMats),
     WithPointer("Vec3.Add", PureVecs3, PureVecs3), WithItself("Vec3.Add", PureVecs3),
     WithPointer("Vec3.Sub", PureVecs3, PureVecs3), WithItself("Vec3.Sub", PureVecs3),
     WithScalar("Vec3.MulS", PureVecs3, PureScalars),
     WithPointer("Vec3.Cross", PureVecs3, PureVecs3), WithItself("Vec3.Cross", PureVecs3),
     OnReceiver("Vec3.To4", PureVecs3),
     WithScalar("Vec3.To4W", PureVecs3, PureScalars),
     OnReceiver("Vec3.Normalize", NormVecs3),
     OnReceiver("Vec4.Normalize", NormVecs4) >>

InitPure ==
  /\ currMat = Nil
  /\ matrices = <<>>
  /\ topRef = Nil
  /\ crashed = FALSE
  /\ last = [op |-> "new", preLen |-> 0]
  /\ hist = <<>>
  /\ comp = CompVoid
  /\ fuel = -1
  /\ bal = NoBal
  /\ \E i \in 1..Len(PureCalls) : \E c \in PureCalls[i] : heap = c.heap /\ call = c.call

Recv == heap[call.recv]
Arg == heap[call.arg]
KeepsStack ==
  UNCHANGED <<currMat, matrices, topRef, crashed, last, hist, comp, fuel, bal>>

\* A method that writes its result into its receiver and returns the receiver.
ReturnsNew_InPlace(result) ==
  /\ heap' = [heap EXCEPT ![call.recv] = result]
  /\ call' = [call EXCEPT !.done = TRUE, !.out = call.recv]
  /\ KeepsStack

\* return &s : the result is a new object, nothing else is written.
ReturnsNew(result) ==
  /\ heap' = Append(heap, result)
  /\ call' = [call EXCEPT !.done = TRUE, !.out = Len(heap) + 1]
  /\ KeepsStack

\* return nil
ReturnsNil ==
  /\ heap' = heap
  /\ call' = [call EXCEPT !.done = TRUE]
  /\ KeepsStack

\* v.X = ...; v.Y = ...; v.Z = ... : the receiver is overwritten, nothing returned.
Overwrites(value) ==
  /\ heap' = [heap EXCEPT ![call.recv] = value]
  /\ call' = [call EXCEPT !.done = TRUE]
  /\ KeepsStack

Mat4_MulM == Pending("Mat4.MulM") /\ ReturnsNew(MulM(Recv, Arg))

Mat4_MulV == Pending("Mat4.MulV") /\ ReturnsNew(MulV(Recv, Arg))

Mat4_MulS == Pending("Mat4.MulS") /\ ReturnsNew(MulS(Recv, call.f))

Mat4_Transpose == Pending("Mat4.Transpose") /\ ReturnsNew(Transpose(Recv))

Mat4_Scale == Pending("Mat4.Scale") /\ ReturnsNew(Scale(Recv, Arg))

Mat4_Translate == Pending("Mat4.Translate") /\ ReturnsNew(Translate(Recv, Arg))

Mat4_Inverse ==
  /\ Pending("Mat4.Inverse")
  /\ IF InverseCall(Recv).nil THEN ReturnsNil ELSE ReturnsNew(InverseCall(Recv).mat)

Mat4_ToArray == Pending("Mat4.ToArray") /\ ReturnsNew(ToArray(Recv))

Mat4_Copy == Pending("Mat4.Copy") /\ ReturnsNew(Copy(Recv))

Vec3_Add == Pending("Vec3.Add") /\ ReturnsNew(Add(Recv, Arg))

Vec3_Sub == Pending("Vec3.Sub") /\ ReturnsNew(Sub(Recv, Arg))

Vec3_MulS == Pending("Vec3.MulS") /\ ReturnsNew(Vec3MulS(Recv, call.f))

Vec3_Cross == Pending("Vec3.Cross") /\ ReturnsNew(Cross(Recv, Arg))

Vec3_To4 == Pending("Vec3.To4") /\ ReturnsNew(To4(Recv))

Vec3_To4W == Pending("Vec3.To4W") /\ ReturnsNew(To4W(Recv, call.f))

Vec3_Normalize == Pending("Vec3.Normalize") /\ Overwrites(Vec3Normalize(Recv))

Vec4_Normalize == Pending("Vec4.Normalize") /\ Overwrites(Vec4Normalize(Recv))

NextPure ==
  \/ Mat4_MulM
  \/ Mat4_MulV
  \/ Mat4_MulS
  \/ Mat4_Transpose
  \/ Mat4_Scale
  \/ Mat4_Translate
  \/ Mat4_Inverse
  \/ Mat4_ToArray
  \/ Mat4_Copy
  \/ Vec3_Add
  \/ Vec3_Sub
  \/ Vec3_MulS
  \/ Vec3_Cross
  \/ Vec3_To4
  \/ Vec3_To4W
  \/ Vec3_Normalize
  \/ Vec4_Normalize

SpecPure == InitPure /\ [][NextPure]_vars

\* ---------------------------------------------------------------------------
\* Mesh.RenderVB.  A mesh is its render context (glvao, glbuffer), the number
\* of its index sets, of its attributes and of the values of its attribute 0;
\* gl tells what OpenGL answers to IsBuffer and IsVertexArray.

\* SetRenderContext with the two ids exchanged.
SetRenderContext_Swapped(m, vao, buf) == [m EXCEPT !.glvao = buf, !.glbuffer = vao]

\* func (m *Mesh) SetRenderContext(vao, buf gl.Uint)
SetRenderContext(m, vao, buf) == [m EXCEPT !.glvao = vao, !.glbuffer = buf]

\* func (m *Mesh) Render() error : the error it returns (NoError for nil), or a
\* panic when m.attributes[0].data[0] does not exist.  It writes no field of m.
Render(m, gl) ==
  IF m.glvao = 0 \/ m.glbuffer = 0
  THEN [mesh |-> m, err |-> "Mesh:Render: Mesh context invalid", panic |-> FALSE]
  ELSE IF ~gl.isBuffer
  THEN [mesh |-> m, err |-> "Mesh:Render: Invalid OpenGL buffer!", panic |-> FALSE]
  ELSE IF ~gl.isVertexArray
  THEN [mesh |-> m, err |-> "Mesh:Render: Invalid OpenGL VAO!", panic |-> FALSE]
  ELSE IF m.indices = 0
  THEN [mesh |-> m, err |-> NoError, panic |-> FALSE]
  ELSE IF m.attributes = 0 \/ m.data = 0
  THEN [mesh |-> m, err |-> NoError, panic |-> TRUE]
  ELSE [mesh |-> m, err |-> NoError, panic |-> FALSE]

\* func (m *Mesh) RenderVB(v, b gl.Uint) error : the mesh after the call, the
\* error returned, and whether the call panicked instead of returning (the
\* mesh is then left as Render had it).
RenderVB(m, v, b, gl) ==
  LET tmpvao == m.glvao
      tmpbuf == m.glbuffer
      set == SetRenderContext(m, v, b)
      r == Render(set, gl)
  IN  IF r.panic THEN r
      ELSE [mesh |-> SetRenderContext(r.mesh, tmpvao, tmpbuf), err |-> r.err,
            panic |-> FALSE]

GlIds == 0..2
Meshes ==
  [glvao : GlIds, glbuffer : GlIds, indices : {0, 1}, attributes : {0, 1}, data : {0, 3}]
GlAnswers == [isBuffer : BOOLEAN, isVertexArray : BOOLEAN]

InitMesh ==
  /\ heap = <<>>
  /\ currMat = Nil
  /\ matrices = <<>>
  /\ topRef = Nil
  /\ crashed = FALSE
  /\ last = [op |-> "new", preLen |-> 0]
  /\ hist = <<>>
  /\ comp = CompVoid
  /\ fuel = -1
  /\ bal = NoBal
  /\ \E m \in Meshes, v \in GlIds, b \in {0, 2}, gl \in GlAnswers :
       call = [fn |-> "RenderVB", mesh0 |-> m, v |-> v, b |-> b, gl |-> gl,
               done |-> FALSE, out |-> Nil]

Mesh_RenderVB ==
  /\ Pending("RenderVB")
  /\ Returns(RenderVB(call.mesh0, call.v, call.b, call.gl))

NextMesh ==
  \/ Mesh_RenderVB

SpecMesh == InitMesh /\ [][NextMesh]_vars

\* ---------------------------------------------------------------------------
\* decipherFace.  A string is the sequence of its characters.

MaxToken == 5
Digits == {"1", "2"}
TokenChars == Digits \cup {"/", "x", " "}

RECURSIVE TrimLeft(_)
TrimLeft(s) == IF s # <<>> /\ Head(s) = " " THEN TrimLeft(Tail(s)) ELSE s

RECURSIVE TrimRight(_)
TrimRight(s) ==
  IF s # <<>> /\ s[Len(s)] = " " THEN TrimRight(SubSeq(s, 1, Len(s) - 1)) ELSE s

\* strings.TrimSpace
TrimSpace(s) == TrimRight(TrimLeft(s))

\* strings.Split(s, "/") : the pieces between the slashes, one more than
\* there are slashes (the empty string gives one empty piece).
RECURSIVE SplitFrom(_, _)
SplitFrom(s, piece) ==
  IF s = <<>> THEN <<piece>>
  ELSE IF Head(s) = "/" THEN <<piece>> \o SplitFrom(Tail(s), <<>>)
  ELSE SplitFrom(Tail(s), Append(piece, Head(s)))

Split(s) == SplitFrom(s, <<>>)

RECURSIVE Decimal(_)
Decimal(s) ==
  IF s = <<>> THEN 0
  ELSE Decimal(SubSeq(s, 1, Len(s) - 1)) * 10 + (IF s[Len(s)] = "1" THEN 1 ELSE 2)

\* strconv.ParseUint(s, 0, 32) on the characters of TokenChars: an error for
\* the empty string and for any character that is no digit.
ParseUint(s) ==
  IF s = <<>> \/ \E i \in 1..Len(s) : s[i] \notin Digits
  THEN [val |-> 0, err |-> TRUE]
  ELSE [val |-> Decimal(s), err |-> FALSE]

\* `if x, err = strconv.ParseUint(...); err != nil { x = 0 }`
IndiceOf(s) == IF ParseUint(s).err THEN 0 ELSE ParseUint(s).val

\* func decipherFace(face string) (uint, uint, uint) : ar[0], ar[1] and ar[2]
\* are read whatever len(ar) is, so fewer than three pieces is an index out of
\* range, a run-time panic.
decipherFace(face) ==
  LET ar == Split(TrimSpace(face))
  IN  IF Len(ar) < 3
      THEN [panic |-> TRUE, vertexIndice |-> 0, uvIndice |-> 0, normalIndice |-> 0]
      ELSE [panic |-> FALSE,
            vertexIndice |-> IndiceOf(ar[1]),
            uvIndice |-> IndiceOf(ar[2]),
            normalIndice |-> IndiceOf(ar[3])]

FaceTokens == UNION {[1..n -> TokenChars] : n \in 0..MaxToken}

InitFace ==
  /\ heap = <<>>
  /\ currMat = Nil
  /\ matrices = <<>>
  /\ topRef = Nil
  /\ crashed = FALSE
  /\ last = [op |-> "new", preLen |-> 0]
  /\ hist = <<>>
  /\ comp = CompVoid
  /\ fuel = -1
  /\ bal = NoBal
  /\ \E face \in FaceTokens :
       call = [fn |-> "decipherFace", face |-> face, done |-> FALSE, out |-> Nil]

Face_decipherFace ==
  /\ Pending("decipherFace")
  /\ Returns(decipherFace(call.face))

NextFace ==
  \/ Face_decipherFace

SpecFace == InitFace /\ [][NextFace]_vars

\* ---------------------------------------------------------------------------
\* ReadSourceFile, CreateShader and CreateShaderProgram.  A source file is the
\* sequence of its characters; OpenGL and the file system are the environment:
\* gl.program is what gl.CreateProgram answers, gl.links what LINK_STATUS says,
\* and a file tells whether os.Open succeeds on it (opens), whether reading it
\* reaches end-of-file (reads; a directory opens and then fails every read),
\* and whether its source compiles.

MaxFiles == 2
MaxSource == 2
NL == "\n"
NUL == "NUL"
SourceChars == {"a", NL}
Sources == UNION {[1..n -> SourceChars] : n \in 0..MaxSource}

VertexExts == {".vertexshader", ".vert", ".vertex", ".vs"}
FragmentExts == {".fragmentshader", ".frag", ".fragment", ".fs"}
GeometryExts == {".geometryshader", ".geom", ".geometry", ".gs"}

\* switch extension := filepath.Ext(shader) : the type handed to CreateShader.
ShaderTypeOf(extension) ==
  IF extension \in VertexExts THEN "VERTEX_SHADER"
  ELSE IF extension \in FragmentExts THEN "FRAGMENT_SHADER"
  ELSE IF extension \in GeometryExts THEN "GEOMETRY_SHADER"
  ELSE "none"

ShaderFile(ext, opens, reads, source, compiles) ==
  [ext |-> ext, opens |-> opens, reads |-> reads, source |-> source,
   compiles |-> compiles]

ShaderFiles ==
  {ShaderFile(".txt", FALSE, FALSE, <<>>, FALSE)}
    \cup {ShaderFile(e, FALSE, FALSE, <<>>, FALSE) : e \in {".vert", ".fs", ".geometry"}}
    \cup {ShaderFile(e, TRUE, FALSE, <<>>, FALSE) : e \in {".vert", ".fs", ".geometry"}}
    \cup {ShaderFile(".vert", TRUE, TRUE, src, TRUE) : src \in Sources}
    \cup {ShaderFile(e, TRUE, TRUE, <<"a", NL>>, c) :
            e \in {".fs", ".geometry"}, c \in BOOLEAN}
    \cup {ShaderFile(".vert", TRUE, TRUE, <<"a", NL>>, FALSE)}

\* r.ReadString('\n') on a reader holding rest: the text up to and including
\* the first newline with a nil error, or all that is left with io.EOF.
ReadString(rest) ==
  LET nls == {k \in 1..Len(rest) : rest[k] = NL}
  IN  IF nls = {}
      THEN [line |-> rest, err |-> "EOF", rest |-> <<>>]
      ELSE LET k == CHOOSE n \in nls : \A o \in nls : n <= o
           IN  [line |-> SubSeq(rest, 1, k), err |-> "nil",
                rest |-> SubSeq(rest, k + 1, Len(rest))]

\* The same on a file whose reads fail: nothing read, an error that is not
\* io.EOF, every time.
ReadStringFails(rest) == [line |-> <<>>, err |-> "EISDIR", rest |-> rest]

\* `if err == io.EOF { ...; break }`
ReadLoopExits(err) == err = "EOF"

InitShader ==
  /\ heap = <<>>
  /\ currMat = Nil
  /\ matrices = <<>>
  /\ topRef = Nil
  /\ crashed = FALSE
  /\ last = [op |-> "new", preLen |-> 0]
  /\ hist = <<>>
  /\ comp = CompVoid
  /\ fuel = -1
  /\ bal = NoBal
  /\ \E n \in 0..MaxFiles :
       \E files \in [1..n -> ShaderFiles], gl \in [program : {0, 1}, links : BOOLEAN] :
         call = [fn |-> "CreateShaderProgram", shaderFiles |-> files, gl |-> gl,
                 pc |-> "start", done |-> FALSE, out |-> 0,
                 ProgramID |-> 0, i |-> 1, sid |-> 0, shaderId |-> 0,
                 buffer |-> <<>>, rest |-> <<>>, err |-> "nil",
                 created |-> {}, attached |-> {}, deferred |-> <<>>,
                 deleted |-> {}, linked |-> FALSE]

At(pc) == call.fn = "CreateShaderProgram" /\ call.pc = pc
Goes(c) ==
  /\ call' = c
  /\ UNCHANGED <<heap, currMat, matrices, topRef, crashed, last, hist, comp, fuel, bal>>

\* The file the loop of CreateShaderProgram is at.
Shader == call.shaderFiles[call.i]

\* var ProgramID gl.Uint = gl.CreateProgram(); if ProgramID == 0 { return 0 }
CSP_CreateProgram ==
  /\ At("start")
  /\ Goes(IF call.gl.program = 0
          THEN [call EXCEPT !.pc = "returned", !.done = TRUE, !.out = 0]
          ELSE [call EXCEPT !.ProgramID = call.gl.program, !.pc = "loop", !.i = 1])

\* for _, shader := range shaderFiles { sid = 0; switch ... } : the next file,
\* and for a known extension the entry of CreateShader up to gl.CreateShader,
\* which names a new shader object.
CSP_Range ==
  /\ At("loop")
  /\ Goes(IF call.i > Len(call.shaderFiles) THEN [call EXCEPT !.pc = "link"]
          ELSE IF ShaderTypeOf(Shader.ext) = "none"
          THEN [call EXCEPT !.sid = 0, !.pc = "attach"]
          ELSE LET id == call.ProgramID + Cardinality(call.created) + 1
               IN  [call EXCEPT !.sid = 0, !.shaderId = id,
                                !.created = call.created \cup {id}, !.pc = "open"])

\* ReadSourceFile: os.Open; on an error ReadSourceFile returns it and
\* CreateShader returns 0.
RSF_Open ==
  /\ At("open")
  /\ Goes(IF ~Shader.opens THEN [call EXCEPT !.sid = 0, !.pc = "attach"]
          ELSE [call EXCEPT !.buffer = <<>>, !.rest = Shader.source,
                            !.err = "nil", !.pc = "read"])

\* One turn of the loop of ReadSourceFile.
RSF_ReadString ==
  /\ At("read")
  /\ LET r == IF Shader.reads THEN ReadString(call.rest) ELSE ReadStringFails(call.rest)
     IN  Goes(IF ReadLoopExits(r.err)
              THEN [call EXCEPT !.buffer = call.buffer \o r.line \o <<NUL>>,
                                !.rest = r.rest, !.err = r.err, !.pc = "compile"]
              ELSE [call EXCEPT !.buffer = call.buffer \o r.line,
                                !.rest = r.rest, !.err = r.err])

\* CreateShader after the source is read: compile, return 0 for a failed
\* compile and shaderId otherwise.
CS_Compile ==
  /\ At("compile")
  /\ Goes(IF ~Shader.compiles THEN [call EXCEPT !.sid = 0, !.pc = "attach"]
          ELSE [call EXCEPT !.sid = call.shaderId, !.pc = "attach"])

\* if sid != 0 { gl.AttachShader(ProgramID, sid); defer gl.DeleteShader(sid) }
CSP_Attach ==
  /\ At("attach")
  /\ Goes(IF call.sid # 0
          THEN [call EXCEPT !.attached = call.attached \cup {call.sid},
                            !.deferred = <<call.sid>> \o call.deferred,
                            !.i = call.i + 1, !.pc = "loop"]
          ELSE [call EXCEPT !.i = call.i + 1, !.pc = "loop"])

\* gl.LinkProgram; return 0 unless LINK_STATUS is gl.TRUE, ProgramID otherwise;
\* the deferred gl.DeleteShader calls run as the function returns.
CSP_Link ==
  /\ At("link")
  /\ Goes([call EXCEPT !.linked = TRUE,
                       !.out = IF call.gl.links THEN call.ProgramID ELSE 0,
                       !.deleted = call.deleted \cup
                                   {call.deferred[k] : k \in 1..Len(call.deferred)},
                       !.deferred = <<>>,
                       !.pc = "returned", !.done = TRUE])

NextShader ==
  \/ CSP_CreateProgram
  \/ CSP_Range
  \/ RSF_Open
  \/ RSF_ReadString
  \/ CS_Compile
  \/ CSP_Attach
  \/ CSP_Link

SpecShader == InitShader /\ [][NextShader]_vars

\* The program keeps running: a step that can be taken is taken.
SpecShaderFair == SpecShader /\ WF_vars(NextShader)

\* The determinant of a 16-element column-major array as linear algebra defines
\* it: the Laplace expansion along row 0.
ArrEntry(a, r, c) == a[4 * c + r]
Det2(a, r1, r2, c1, c2) ==
  ArrEntry(a, r1, c1) * ArrEntry(a, r2, c2) - ArrEntry(a, r1, c2) * ArrEntry(a, r2, c1)
Det3(a, c1, c2, c3) ==
    ArrEntry(a, 1, c1) * Det2(a, 2, 3, c2, c3)
  - ArrEntry(a, 1, c2) * Det2(a, 2, 3, c1, c3)
  + ArrEntry(a, 1, c3) * Det2(a, 2, 3, c1, c2)
Det4(a) ==
    ArrEntry(a, 0, 0) * Det3(a, 1, 2, 3) - ArrEntry(a, 0, 1) * Det3(a, 0, 2, 3)
  + ArrEntry(a, 0, 2) * Det3(a, 0, 1, 3) - ArrEntry(a, 0, 3) * Det3(a, 0, 1, 2)

\* ===========================================================================
\* The claims.

\* C1: N consecutive Push calls followed by N consecutive Pop calls leave
\* current equal, component for component, to its value before the sequence,
\* and leave the saved stack with its original contents.
BalanceRestored ==
  (bal.pushes = bal.N /\ bal.pops = bal.N) =>
    /\ ~crashed
    /\ currMat # Nil
    /\ Cur = bal.cur0
    /\ Len(matrices) = Len(bal.saved0)
    /\ \A i \in 1..Len(matrices) : Saved[i] = bal.saved0[i]
\* A completed sequence of at least two Pushes and Pops over saved snapshots.
BalanceRestoredWitness ==
  /\ bal.N >= 2
  /\ bal.pushes = bal.N
  /\ bal.pops = bal.N
  /\ Len(bal.saved0) = 2
  /\ bal.cur0 # IdentMat4

\* C2: Pop on an empty saved stack changes nothing and does not crash: current
\* and the saved stack are as before the call.
PopOnEmptyIsNoOp ==
  [][(MS_Pop /\ matrices = <<>>) =>
       /\ currMat' = currMat
       /\ heap' = heap
       /\ matrices' = <<>>
       /\ topRef' = topRef
       /\ crashed' = FALSE]_vars
\* Pop has just returned from a call made on an empty stack.
PopOnEmptyWitness ==
  /\ last.op = "Pop"
  /\ last.preLen = 0
  /\ currMat # Nil
  /\ Cur # IdentMat4

\* The part of C3 that does not depend on Push succeeding: whatever is called,
\* a snapshot that stays on the saved stack keeps its value, and a successful
\* Push leaves current unchanged and appends one separate object of its value.
SnapshotsIndependent ==
  [][/\ \A i \in 1..Len(matrices) :
          i <= Len(matrices') => heap'[matrices'[i]] = heap[matrices[i]]
     /\ (MS_Push /\ currMat # Nil) =>
          /\ currMat' # Nil
          /\ Cur' = Cur
          /\ Len(matrices') = Len(matrices) + 1
          /\ heap'[matrices'[Len(matrices')]] = Cur
          /\ matrices'[Len(matrices')] # currMat'
          /\ matrices'[Len(matrices')] # topRef']_vars

\* C3: Push leaves current unchanged and appends exactly one snapshot whose
\* value equals current, a separate copy that no later operation changes.
PushAppendsIndependentCopy ==
  [][/\ \A i \in 1..Len(matrices) :
          i <= Len(matrices') => heap'[matrices'[i]] = heap[matrices[i]]
     /\ MS_Push =>
          /\ ~crashed'
          /\ currMat' = currMat
          /\ Len(matrices') = Len(matrices) + 1
          /\ currMat # Nil
          /\ heap'[matrices'[Len(matrices')]] = Cur
          /\ matrices'[Len(matrices')] # currMat']_vars

\* C4: Pop on a non-empty saved stack installs as current the value most
\* recently pushed and not yet popped, and removes exactly that entry; the
\* remaining entries keep their order and values.
PopIsLastInFirstOut ==
  [][(MS_Pop /\ hist # <<>>) =>
       /\ currMat' # Nil
       /\ Cur' = hist[Len(hist)]
       /\ Len(matrices') = Len(hist) - 1
       /\ \A i \in 1..Len(matrices') : heap'[matrices'[i]] = hist[i]]_vars
\* Pop has just restored the newer of two different snapshots.
PopIsLastInFirstOutWitness ==
  /\ last.op = "Pop"
  /\ last.preLen = 2
  /\ Len(matrices) = 1
  /\ currMat # Nil
  /\ Cur # Saved[1]

\* C5: after Init, current is always a defined matrix.
CurrentAlwaysDefined == last.op # "new" => currMat # Nil

\* C6: Invert on a singular current fails without changing state: current
\* keeps its value and the saved stack is unchanged.
SingularInvertKeepsCurrent ==
  [][(MS_Invert /\ currMat # Nil /\ InvertFails(ToArray(Cur))) =>
       /\ currMat' # Nil
       /\ Cur' = Cur
       /\ Saved' = Saved]_vars

\* C7: after Init no sequence of calls terminates the program.
NeverPanics == ~crashed

\* C8: every call of Init leaves current the identity and the saved stack
\* empty.
InitResets ==
  last.op = "Init" => (currMat # Nil /\ Cur = IdentMat4 /\ matrices = <<>>)

\* C9: every transform-composing operation leaves the saved stack untouched:
\* same length, same entries, same order.
ComposingCall ==
  \/ MS_RotateX \/ MS_RotateY \/ MS_RotateZ \/ MS_Scale \/ MS_Translate
  \/ MS_MulM \/ MS_Invert \/ MS_Ortho \/ MS_Perspective
ComposingKeepsSaved ==
  [][ComposingCall =>
       /\ Len(matrices') = Len(matrices)
       /\ \A i \in 1..Len(matrices) : heap'[matrices'[i]] = heap[matrices[i]]]_vars
\* A composing call has just changed current under a saved snapshot.
ComposingKeepsSavedWitness ==
  /\ last.op \in {"RotateX", "RotateY", "RotateZ", "Scale", "Translate",
                  "MulM", "Invert", "Ortho", "Perspective"}
  /\ Len(matrices) > 0
  /\ currMat # Nil
  /\ Cur # Saved[Len(matrices)]

\* C10 as amended: after Init followed by composing operations other than
\* Invert, with matrices T1 .. Tn, current is T1 x T2 x .. x Tn: each
\* operation multiplies its matrix on the right.
TopIsProductWithoutInvert ==
  (comp.valid /\ ~comp.inv) => (currMat # Nil /\ Cur = comp.prod)
\* C10: after Init followed by composing operations (Invert among them) with
\* matrices T1 .. Tn, current is T1 x T2 x .. x Tn.
TopIsProduct ==
  (comp.valid /\ currMat # Nil) => Cur = comp.prod
\* A translation followed by a rotation: the two do not commute.
TopIsProductWitness ==
  /\ comp.valid
  /\ ~comp.inv
  /\ last.op = "RotateZ"
  /\ currMat # Nil
  /\ Cur[3].X = 1
  /\ Cur[0].Y = 1

NestedMatchReached ==
  bal.matched /\ fuel = 0 /\ bal.atPush # IdentMat4

\* C12: Invert returns the singular-matrix error, and Mat4.Inverse returns nil,
\* exactly when the determinant m[0]*inv[0] + m[1]*inv[4] + m[2]*inv[8] +
\* m[3]*inv[12] is zero; for a 16-element input with a nonzero determinant it
\* returns a numeric result (16 values) and no error.  That expression is the
\* determinant of the matrix (Det4).
InvertFailsIffDetZero ==
  /\ Returned("Invert") =>
       LET m == call.arr
           singular == call.out.err = "No inverse for this matrix!"
       IN  IF LenOf(m) = 16
           THEN LET det == DetOf(m, Cofactors(m))
                IN  /\ singular <=> det = 0
                    /\ det = Det4(m)
                    /\ det # 0 => (call.out.err = NoError /\ LenOf(call.out.out) = 16)
           ELSE ~singular
  /\ Returned("Inverse") =>
       LET m == ToArray(call.m)
       IN  call.out.nil <=> DetOf(m, Cofactors(m)) = 0

\* Invert has returned the error for the matrix with two identical rows.
InvertFailsIffDetZeroWitness ==
  /\ Returned("Invert")
  /\ call.out.err = "No inverse for this matrix!"
  /\ \A c \in 0..3 : ArrEntry(call.arr, 0, c) = ArrEntry(call.arr, 1, c)

\* Invert has returned a result for a matrix of determinant -1.
InvertSucceedsReached ==
  /\ Returned("Invert")
  /\ call.out.err = NoError
  /\ Det4(call.arr) = -1

\* d times the identity matrix.
TimesIdent(d) ==
  Mat4Of(NewVec4(d, 0, 0, 0), NewVec4(0, d, 0, 0), NewVec4(0, 0, d, 0), NewVec4(0, 0, 0, d))

\* C13: for every non-singular M, M.MulM(M.Inverse()) is the identity, and so
\* is M.Inverse().MulM(M); the sixteen cofactor expressions of Invert form the
\* adjugate: M times the unscaled cofactor array, and that array times M, equal
\* det(M) times the identity (in exact arithmetic).
InverseRoundTrip ==
  /\ (Returned("Inverse") /\ ~call.out.nil) =>
       /\ MulM(call.m, call.out.mat) = IdentMat4
       /\ MulM(call.out.mat, call.m) = IdentMat4
  /\ Returned("Cofactors") =>
       LET adj == FromArray(call.out)
           det == Det4(ToArray(call.m))
       IN  /\ MulM(call.m, adj) = TimesIdent(det)
           /\ MulM(adj, call.m) = TimesIdent(det)

\* Inverse has returned the inverse of a matrix of determinant -1 that is not
\* its own inverse.
InverseRoundTripWitness ==
  /\ Returned("Inverse")
  /\ ~call.out.nil
  /\ Det4(ToArray(call.m)) = -1
  /\ call.out.mat # call.m

\* The cofactors of a matrix of determinant other than 0, 1 and -1 have been
\* computed.
AdjugateReached ==
  Returned("Cofactors") /\ Det4(ToArray(call.m)) \notin {-1, 0, 1}

\* C14: for every matrix M, M.MulM(IdentMat4()) equals M and
\* IdentMat4().MulM(M) equals M.
IdentityLaw ==
  Returned("MulM") =>
    /\ call.b = IdentMat4 => call.out = call.a
    /\ call.a = IdentMat4 => call.out = call.b

\* The identity has been multiplied, on the right, to a matrix without zero
\* entries.
IdentityLawWitness ==
  /\ Returned("MulM")
  /\ call.b = IdentMat4
  /\ \A r \in 0..3, c \in 0..3 : Entry(call.a, r, c) # 0

\* The identity has been multiplied, on the left, to a singular matrix.
IdentityLeftReached ==
  /\ Returned("MulM")
  /\ call.a = IdentMat4
  /\ Det4(ToArray(call.b)) = 0
  /\ call.out # IdentMat4

\* C15: for all matrices A and B and every column j in 0..3, column j of
\* A.MulM(B) equals A.MulV(column j of B); so A.MulM(B).MulV(v) equals
\* A.MulV(B.MulV(v)) for every vector v.
ProductColumns ==
  Returned("MulM") =>
    /\ \A j \in 0..3 : call.out[j] = MulV(call.a, call.b[j])
    /\ \A v \in MathVecs : MulV(call.out, v) = MulV(call.a, MulV(call.b, v))

\* Two matrices that do not commute have been multiplied.
ProductColumnsWitness ==
  /\ Returned("MulM")
  /\ call.out # MulM(call.b, call.a)
  /\ \E v \in MathVecs : MulV(call.out, v) # MulV(call.b, MulV(call.a, v))

\* C16: for every matrix M, FromArray(M.ToArray()) succeeds and returns a matrix
\* equal to M; for every array a of length 16, FromArray(a).ToArray() equals a.
FlattenRoundTrip ==
  /\ Returned("ToArray") =>
       FromArrayCall(call.out) = [mat |-> call.m, err |-> NoError]
  /\ (Returned("FromArray") /\ LenOf(call.arr) = 16) =>
       /\ call.out.err = NoError
       /\ ToArray(call.out.mat) = call.arr

\* A matrix that is not symmetric has been flattened.
FlattenRoundTripWitness ==
  /\ Returned("ToArray")
  /\ \E r \in 0..3, c \in 0..3 : Entry(call.m, r, c) # Entry(call.m, c, r)

\* A 16-element array has been made a matrix.
UnflattenReached ==
  /\ Returned("FromArray")
  /\ LenOf(call.arr) = 16
  /\ call.arr[1] # call.arr[4]

\* C17: ToArray returns exactly 16 values in column-major order: for every
\* column i in 0..3, elements 4i, 4i+1, 4i+2, 4i+3 are the X, Y, Z, W components
\* of column i.
ToArrayColumnMajor ==
  Returned("ToArray") =>
    /\ LenOf(call.out) = 16
    /\ DOMAIN call.out = 0..15
    /\ \A i \in 0..3 :
         /\ call.out[4*i] = call.m[i].X
         /\ call.out[4*i + 1] = call.m[i].Y
         /\ call.out[4*i + 2] = call.m[i].Z
         /\ call.out[4*i + 3] = call.m[i].W

\* The matrix whose sixteen entries all differ has been flattened.
ToArrayColumnMajorWitness ==
  /\ Returned("ToArray")
  /\ Cardinality({call.out[k] : k \in 0..15}) = 16

\* C18: FromArray returns the invalid-length error and no matrix for every
\* input with fewer than 16 elements; for every input with 16 or more elements
\* it succeeds, builds the matrix from the first 16 elements only, and ignores
\* the rest.
FromArrayLength ==
  Returned("FromArray") =>
    IF LenOf(call.arr) < 16
    THEN call.out.err = "Need 16-element float array" /\ call.out.mat = Nil
    ELSE /\ call.out.err = NoError
         /\ \A i \in 0..3 :
              call.out.mat[i] = NewVec4(call.arr[4*i], call.arr[4*i + 1],
                                        call.arr[4*i + 2], call.arr[4*i + 3])
         /\ call.out = FromArrayCall([k \in 0..15 |-> call.arr[k]])

\* FromArray has succeeded on an array of more than 16 elements.
FromArrayLengthWitness ==
  /\ Returned("FromArray")
  /\ LenOf(call.arr) > 16
  /\ call.out.err = NoError

\* FromArray has refused an array of 10 elements.
FromArrayShortReached ==
  /\ Returned("FromArray")
  /\ LenOf(call.arr) = 10
  /\ call.out.err # NoError

\* C19: for every matrix M, M.Transpose().Transpose() equals M, and entry
\* (row r, column c) of M.Transpose() equals entry (row c, column r) of M.
TransposeInvolution ==
  Returned("Transpose") =>
    /\ Transpose(call.out) = call.m
    /\ \A r \in 0..3, c \in 0..3 : Entry(call.out, r, c) = Entry(call.m, c, r)

\* A matrix that is not symmetric has been transposed.
TransposeInvolutionWitness ==
  /\ Returned("Transpose")
  /\ call.out # call.m

\* Frustum's validation fails on <<left, right, bottom, top, near, far>>.
Degenerate(a) ==
  a[1] = a[2] \/ a[3] = a[4] \/ a[5] = a[6] \/ a[5] < 0 \/ a[6] < 0

\* The half of C20 about the fallback: Frustum returns the identity matrix
\* whenever left = right, or top = bottom, or near = far, or near < 0, or
\* far < 0.
FrustumFallsBack ==
  (Returned("Frustum") /\ Degenerate(call.args)) => call.out = IdentMat4

\* C20: Frustum returns the identity matrix whenever left = right, or
\* top = bottom, or near = far, or near < 0, or far < 0, and in every other case
\* a projection matrix computed from the parameters that is not the fallback.
FrustumFallsBackExactly ==
  Returned("Frustum") => (call.out = IdentMat4 <=> Degenerate(call.args))

\* Frustum has returned for parameters that pass its validation.
FrustumComputedReached ==
  Returned("Frustum") /\ ~Degenerate(call.args) /\ call.out # IdentMat4

\* The scale and offset entries of the frustum matrix, which the code does
\* compute as the conventional derivation has them.
FrustumScaleAndOffset ==
  (Returned("Frustum") /\ ~Degenerate(call.args)) =>
    LET a == call.args
    IN  /\ call.out[0].X * (a[2] - a[1]) = 2 * a[5]
        /\ call.out[1].Y * (a[4] - a[3]) = 2 * a[5]
        /\ call.out[2].X * (a[2] - a[1]) = a[2] + a[1]
        /\ call.out[2].Y * (a[4] - a[3]) = a[4] + a[3]
        /\ call.out[2].Z * (a[6] - a[5]) = -(a[6] + a[5])
        /\ call.out[3].Z * (a[6] - a[5]) = -(2 * a[6] * a[5])

\* C21: for parameters that pass its validation, Frustum returns the
\* conventional OpenGL frustum projection matrix: column 2 has W = -1 and
\* column 3 has W = 0 (the perspective-divide row), as in the matrix Perspective
\* builds.
FrustumPerspectiveRow ==
  (Returned("Frustum") /\ ~Degenerate(call.args)) =>
    /\ call.out[2].W = -1
    /\ call.out[3].W = 0
    /\ call.out[2].W = Perspective("pi/2", 1, 1, 3)[2].W
    /\ call.out[3].W = Perspective("pi/2", 1, 1, 3)[3].W

\* C22: for all value, min, max with min <= max, Clamp returns min when
\* value < min, max when value > max, and value otherwise; the result lies in
\* [min, max], and Clamp applied to its own result returns the same result.
ClampInRange ==
  (Returned("Clamp") /\ call.args[2] <= call.args[3]) =>
    LET value == call.args[1]
        min == call.args[2]
        max == call.args[3]
    IN  /\ value < min => call.out = min
        /\ value > max => call.out = max
        /\ (value >= min /\ value <= max) => call.out = value
        /\ call.out >= min /\ call.out <= max
        /\ Clamp(call.out, min, max) = call.out

\* Clamp has cut a value above max down to max, with min < max.
ClampInRangeWitness ==
  /\ Returned("Clamp")
  /\ call.args[2] < call.args[3]
  /\ call.args[1] > call.args[3]
  /\ call.out = call.args[3]

\* Clamp has raised a value below min up to min.
ClampRaisedReached ==
  /\ Returned("Clamp")
  /\ call.args[2] <= call.args[3]
  /\ call.args[1] < call.args[2]
  /\ call.out = call.args[2]

\* The value-returning operations of C23.
ValueReturning ==
  { "Mat4.MulM", "Mat4.MulV", "Mat4.MulS", "Mat4.Transpose", "Mat4.Scale",
    "Mat4.Translate", "Mat4.Inverse", "Mat4.ToArray", "Mat4.Copy",
    "Vec3.Add", "Vec3.Sub", "Vec3.MulS", "Vec3.Cross", "Vec3.To4", "Vec3.To4W" }

\* C23: the value-returning matrix and vector operations (Mat4.MulM, MulV,
\* MulS, Transpose, Scale, Translate, Inverse, ToArray, Copy; Vec3.Add, Sub,
\* MulS, Cross, To4, To4W) never modify their receiver or their arguments, and
\* what they return is neither of them; only Normalize mutates its receiver.
OnlyNormalizeMutates ==
  /\ (call.done /\ call.fn \in ValueReturning) =>
       /\ heap[call.recv] = call.recv0
       /\ call.arg # Nil => heap[call.arg] = call.arg0
       /\ call.out # Nil => (call.out # call.recv /\ call.out # call.arg)
  /\ (call.done /\ call.fn \in {"Vec3.Normalize", "Vec4.Normalize"}
        /\ Norm(call.recv0) # 1) =>
       heap[call.recv] # call.recv0

\* u.Cross(u) has returned: receiver and argument are one object, which has
\* kept its value, and the result is a third one.
OnlyNormalizeMutatesWitness ==
  /\ Returned("Vec3.Cross")
  /\ call.arg = call.recv
  /\ call.out = 2
  /\ heap[1] = call.recv0 /\ heap[2] # heap[1]

\* Normalize has changed its receiver.
NormalizeMutatesReached ==
  Returned("Vec4.Normalize") /\ heap[call.recv] # call.recv0

\* C24: Normalize replaces each of X, Y, Z by its pre-call value divided by one
\* norm computed from the pre-call (X, Y, Z), so all three components are
\* divided by the same length; Vec4.Normalize does not use W in the norm and
\* leaves W unchanged.
NormalizeDividesByOneNorm ==
  (call.done /\ call.fn \in {"Vec3.Normalize", "Vec4.Normalize"}) =>
    LET v0 == call.recv0
        lenv == Sqrt(v0.X.n * v0.X.n + v0.Y.n * v0.Y.n + v0.Z.n * v0.Z.n)
        v == heap[call.recv]
    IN  /\ v.X = [n |-> v0.X.n, d |-> lenv]
        /\ v.Y = [n |-> v0.Y.n, d |-> lenv]
        /\ v.Z = [n |-> v0.Z.n, d |-> lenv]
        /\ call.fn = "Vec4.Normalize" => v.W = v0.W

\* Vec4.Normalize has normalized (2, 3, 6, 4): the norm is 7 without W.
NormalizeDividesByOneNormWitness ==
  /\ Returned("Vec4.Normalize")
  /\ call.recv0.W = FloatOf(4)
  /\ heap[call.recv].X = [n |-> 2, d |-> 7]
  /\ heap[call.recv].Z = [n |-> 6, d |-> 7]

\* Vec3.Normalize has normalized a vector with three different quotients.
Vec3NormalizedReached ==
  /\ Returned("Vec3.Normalize")
  /\ heap[call.recv].Y = [n |-> 3, d |-> 7]

\* The dot product of two Vec3.
Dot3(u, v) == u.X * v.X + u.Y * v.Y + u.Z * v.Z

\* C25: for all Vec3 u and v, u.Cross(v) is the right-handed cross product
\* (u.Y*v.Z - u.Z*v.Y, u.Z*v.X - u.X*v.Z, u.X*v.Y - u.Y*v.X): it is
\* anticommutative, u.Cross(u) is the zero vector, and its dot product with u
\* and with v is 0.
CrossIsRightHanded ==
  Returned("Vec3.Cross") =>
    LET u == call.recv0
        v == call.arg0
        w == heap[call.out]
    IN  /\ w = NewVec3(u.Y*v.Z - u.Z*v.Y, u.Z*v.X - u.X*v.Z, u.X*v.Y - u.Y*v.X)
        /\ w = Vec3MulS(Cross(v, u), -1)
        /\ u = v => w = NewVec3(0, 0, 0)
        /\ Dot3(w, u) = 0
        /\ Dot3(w, v) = 0
        /\ (u = NewVec3(1, 0, 0) /\ v = NewVec3(0, 1, 0)) => w = NewVec3(0, 0, 1)

\* The cross product of two vectors that are not parallel has been computed.
CrossIsRightHandedWitness ==
  /\ Returned("Vec3.Cross")
  /\ heap[call.out] # NewVec3(0, 0, 0)
  /\ call.recv0 = NewVec3(1, 2, 2)

\* C27: Mesh.RenderVB(v, b) renders with the supplied VAO and buffer and then
\* restores the mesh's own render context: after it returns, whether Render
\* succeeded or returned an error, the mesh's glvao and glbuffer equal their
\* values before the call.
RenderVBRestoresContext ==
  (Returned("RenderVB") /\ ~call.out.panic) =>
    /\ call.out.mesh.glvao = call.mesh0.glvao
    /\ call.out.mesh.glbuffer = call.mesh0.glbuffer
    /\ call.out.err = Render(SetRenderContext(call.mesh0, call.v, call.b), call.gl).err

\* RenderVB has returned Render's error for a supplied context that differs
\* from the mesh's own, whose two ids differ too.
RenderVBRestoresContextWitness ==
  /\ Returned("RenderVB")
  /\ ~call.out.panic
  /\ call.out.err # NoError
  /\ call.mesh0.glvao # call.mesh0.glbuffer
  /\ <<call.v, call.b>> # <<call.mesh0.glvao, call.mesh0.glbuffer>>

\* RenderVB has returned after a Render that succeeded and drew.
RenderVBDrewReached ==
  /\ Returned("RenderVB")
  /\ ~call.out.panic
  /\ call.out.err = NoError
  /\ call.mesh0.indices > 0
  /\ call.mesh0.glvao # call.v

\* The pieces of a face token, and the value of piece i: the number it spells,
\* or 0 when the piece is empty, absent or no number.
FacePieces == Split(TrimSpace(call.face))
FaceValue(i) == IF i <= Len(FacePieces) THEN IndiceOf(FacePieces[i]) ELSE 0

\* A token with three pieces or more is deciphered: each of the three values
\* is the number its piece spells, and 0 for an empty piece.
DecipherFaceThreePieces ==
  (Returned("decipherFace") /\ Len(FacePieces) >= 3) =>
    /\ ~call.out.panic
    /\ call.out.vertexIndice = FaceValue(1)
    /\ call.out.uvIndice = FaceValue(2)
    /\ call.out.normalIndice = FaceValue(3)

\* The token "1//2" has been deciphered as (1, 0, 2).
DecipherFaceEmptyPieceReached ==
  /\ Returned("decipherFace")
  /\ call.face = <<"1", "/", "/", "2">>
  /\ ~call.out.panic
  /\ <<call.out.vertexIndice, call.out.uvIndice, call.out.normalIndice>> = <<1, 0, 2>>

\* C28: decipherFace accepts a face token of the form v/uv/n and returns 0 for
\* every one of the three values that is missing, whether the component is
\* empty ("1//3") or absent altogether ("1" or "1/2"), without failing.
DecipherFaceMissingIsZero ==
  Returned("decipherFace") =>
    /\ ~call.out.panic
    /\ call.out.vertexIndice = FaceValue(1)
    /\ call.out.uvIndice = FaceValue(2)
    /\ call.out.normalIndice = FaceValue(3)

\* decipherFace has been called with the token "1/2", whose normal is absent.
DecipherFaceAbsentReached ==
  /\ Returned("decipherFace")
  /\ call.face = <<"1", "/", "2">>
  /\ call.out.panic

\* What CreateShaderProgram returns: 0 when gl.CreateProgram gave 0 or the
\* link failed, the program id otherwise; linking is attempted only after
\* every file of the list has been handled, and the shaders attached are those
\* of the files handled so far that opened, were read and compiled.
CreateShaderProgramReturnValue ==
  /\ Returned("CreateShaderProgram") =>
       call.out = (IF call.gl.program = 0 \/ ~call.gl.links THEN 0 ELSE call.gl.program)
  /\ (At("link") \/ call.linked) => call.i = Len(call.shaderFiles) + 1
  /\ (At("loop") \/ At("link") \/ call.linked) =>
       Cardinality(call.attached) =
         Cardinality({k \in 1..(call.i - 1) :
                        /\ ShaderTypeOf(call.shaderFiles[k].ext) # "none"
                        /\ call.shaderFiles[k].opens
                        /\ call.shaderFiles[k].reads
                        /\ call.shaderFiles[k].compiles})

\* A program has been returned although one file of two was skipped.
CreateShaderProgramSkippedReached ==
  /\ Returned("CreateShaderProgram")
  /\ call.out # 0
  /\ Len(call.shaderFiles) = 2
  /\ Cardinality(call.attached) = 1
  /\ ~call.shaderFiles[1].opens

\* C26: CreateShaderProgram returns 0 when the program object cannot be created
\* or when linking fails, and the new program id otherwise; a shader file with
\* an unrecognized extension or one that fails to load or compile is skipped
\* without stopping the loop, so every remaining file in the list is still
\* processed and linking is still attempted.
CreateShaderProgramSoldiersOn ==
  /\ [](Returned("CreateShaderProgram") =>
          call.out = (IF call.gl.program = 0 \/ ~call.gl.links THEN 0
                      ELSE call.gl.program))
  /\ []((At("link") \/ call.linked) => call.i = Len(call.shaderFiles) + 1)
  /\ (At("loop") ~> call.linked)

\* The loop is at a file that opens and whose reads fail.
UnreadableFileReached ==
  /\ At("read")
  /\ ~Shader.reads
  /\ call.err = "EISDIR"

\* On end-of-file the string ReadSourceFile returns is the contents of the
\* file followed by one NUL, the only NUL in it.
ReadSourceFileContents ==
  At("compile") =>
    /\ call.err = "EOF"
    /\ call.buffer = Shader.source \o <<NUL>>
    /\ Cardinality({k \in 1..Len(call.buffer) : call.buffer[k] = NUL}) = 1

\* A file of two lines, the second unterminated, has been read to its end.
ReadSourceFileContentsReached ==
  /\ At("compile")
  /\ Shader.source = <<NL, "a">>
  /\ call.buffer = <<NL, "a", NUL>>

\* C29: ReadSourceFile always terminates once the file is open: its read loop
\* exits after the reader reports an error, whether that error is end-of-file
\* or any other read error, and on end-of-file the returned string is the file
\* contents followed by exactly one NUL byte.
ReadSourceFileTerminates ==
  /\ [](At("read") => <>(~At("read")))
  /\ [](At("compile") => call.buffer = Shader.source \o <<NUL>>)

\* C30: every shader object created with gl.CreateShader during a
\* CreateShaderProgram call has been deleted with gl.DeleteShader by the time
\* the call returns, on every path: successful link, failed link, and shaders
\* whose source could not be read or whose compilation failed.
AllShadersDeleted ==
  Returned("CreateShaderProgram") => call.created \subseteq call.deleted

\* The shaders that were attached are deleted by the return, whether the link
\* succeeded or failed.
AttachedShadersDeleted ==
  Returned("CreateShaderProgram") => call.attached \subseteq call.deleted

\* The call has returned after a failed link with a shader attached and
\* another, which did not compile, left alive.
ShaderLeakReached ==
  /\ Returned("CreateShaderProgram")
  /\ ~call.gl.links
  /\ call.attached # {}
  /\ call.created \ call.deleted # {}

====
